---- MODULE Spec2Model ----
(***************************************************************************)
(* Model of the OBStimizer real-time core (rust-core):                     *)
(*   obs-video       frame_pool.rs, video_output.rs                        *)
(*   obs-compositor  scene.rs, transform.rs, render.rs, types.rs           *)
(*   obs-audio-mix   mixer.rs, clamping.rs, types.rs                       *)
(* Each section gives the state, the operations as actions and the         *)
(* properties checked of them.                                             *)
(***************************************************************************)
EXTENDS Integers, Sequences, FiniteSets, TLC

(***************************************************************************)
(* Program constants                                                       *)
(***************************************************************************)
\* video_output.rs:16  const MAX_CACHE_SIZE: usize = 16
MAX_CACHE_SIZE == 16
\* video_output.rs:69  pool capacity is MAX_CACHE_SIZE + 4
POOL_EXTRA_FRAMES == 4
\* video_output.rs:135 channel::bounded(4)
ENCODER_QUEUE_CAP == 4
\* frame_pool.rs:8     const FRAME_ALIGNMENT: usize = 32
FRAME_ALIGNMENT == 32
\* mixer.rs:146        channel::bounded(4)
AUDIO_QUEUE_CAP == 4
\* mixer.rs:10         const MAX_AUDIO_MIXES: usize = 6
MAX_AUDIO_MIXES == 6

(***************************************************************************)
(* Bounds of the model                                                     *)
(***************************************************************************)
\* lock_frame calls of the graphics thread when no encoder ever connects
LocksNoEncoder == 22
\* lock_frame calls when one encoder connection is made
LocksOneEncoder == 11
\* lock_frame calls when two encoder connections are made
LocksTwoEncoders == 5
\* lock_frame calls when two encoders connect, disconnect and drop receivers
LocksChurn == 3
\* largest frame_rate_divisor passed to connect_encoder
MaxDivisor == 2
\* largest capacity a FramePool used on its own is built with
MaxCapacity == 3
\* threads that use one FramePool
MaxClients == 2
\* add_item calls made on one Scene
MaxAdds == 2
\* threads that call add_item on one Scene
MaxAdders == 2
\* longest order list passed to reorder_items
MaxOrderLen == 1
\* add_item calls made on a Scene used by one thread
MaxItems == 3
\* longest order list passed to reorder_items on a Scene used by one thread
MaxOrderPairs == 2
\* threads that call render_items on one Scene
MaxRenderers == 2
\* render_items calls made on one Scene
MaxRenders == 2
\* add_item calls made on a Scene whose transforms are updated
MaxTransformItems == 1
\* sources passed to one mix_sources call
MaxMixSources == 2
\* mix_sources calls made on one AudioMix, one after the other
MaxMixCalls == 2
\* connect_encoder calls made on one AudioMix
MaxMixConnects == 2
\* process calls made on one AudioMix
MaxProcessCalls == 5
\* connect_encoder calls made on the buses of one AudioMixer
MaxBusConnects == 2
\* process_all_mixes calls made on one AudioMixer
MaxProcessAlls == 4
\* longest buffer handed to a clamping kernel: two 8-lane bodies and a tail
MaxClampLen == 17
\* channels handed to clamp_audio_channels
MaxClampChannels == 2
\* calls of the clamping kernels on one set of buffers
MaxClampCalls == 2
\* 16-pixel blocks in a row of the images converted
MaxBlocks == 2
\* pairs of rows of the images converted
MaxRowPairs == 2
\* lock_frame calls before and between the shutdown() calls
MaxShutdownLocks == 2
\* widths (in units of 8) and heights (in units of 2) of the frames of the
\* pools allocated with planes, and the frames of such a pool
MaxAllocCols == 2
MaxAllocRows == 2
MaxAllocFrames == 2

\* The ids rand::random() draws in connect_encoder: opaque tokens, as many as a
\* run makes connections, so that equal and distinct ids both occur.
EncoderIds == {"id_a", "id_b"}

VARIABLES
    frames,          \* FramePool.frames: Seq of PooledFrame [data, in_use]
    locked,          \* the VideoFrame the graphics thread holds between
                     \* lock_frame and unlock_frame, or None
    frame_queue,     \* VideoOutput.frame_queue: Seq of CachedFrame
    encoders,        \* VideoOutput.encoders: Seq of EncoderConnection
    channels,        \* the bounded channels made by connect_encoder, by tx:
                     \* buf (queued frames), rx_alive (Receiver not dropped),
                     \* and as history: received (frames the encoder took),
                     \* divisor, joined (total_frames at connect), reaped
    worker_pc,       \* position of the distribution thread
    cached,          \* the CachedFrame the distribution thread popped
    total_frames,    \* VideoOutput.total_frames
    skipped_frames,  \* VideoOutput.skipped_frames
    running,         \* VideoOutput.running
    thread_handle,   \* VideoOutput.thread_handle: "some", "joining", "none"
    ret,             \* result of the last lock_frame / unlock_frame call
    pushed,          \* history: frames unlock_frame enqueued, in order
    submitted,       \* history: number of completed unlock_frame calls
    budget           \* calls the environment may still make

\* A FramePool used on its own by several threads (frame_pool.rs)
VARIABLES
    pool,            \* FramePool.frames: Seq of PooledFrame [data, in_use]
    pool_mutex,      \* holder of the Mutex around FramePool.frames, 0 if free
    clients          \* per thread: pc, the frame passed to release, the slot
                     \* the scan stopped at, the frames it holds, and the
                     \* result of its last call

\* A Scene shared by several threads (scene.rs)
VARIABLES
    items,           \* Scene.items: Seq of SceneItem
    id_counter,      \* Scene.id_counter
    adders,          \* per thread in add_item: the item it is about to push
    returned,        \* history: ids add_item returned, in order of return
    scene_ret,       \* result of the last scene call that returns a value
    render_count,    \* Scene.render_count
    renderers,       \* per thread in render_items: pc, the index the loop is
                     \* at, the items passed to the callback so far, and as
                     \* history the items as they were when the read lock
                     \* was taken
    scene_budget     \* calls the clients of the Scene may make

\* An AudioMix (mixer.rs)
VARIABLES
    mix,             \* the AudioMix: channels, frames_per_buffer,
                     \* buffer_clamped.data, buffer_unclamped.data
    mixed,           \* history: the sources of the last mix_sources call and
                     \* buffer_unclamped.data as that call found it
    audio_budget,    \* calls the client of the AudioMix may make
    audio_channels,  \* the channels connect_encoder made: the queued buffers
                     \* and whether the Receiver is still held
    mix_pc,          \* where process() of the AudioMix is: "idle" when not
                     \* running, "retain" between its send loop and its retain
    mixes,           \* AudioMixer::mixes: the buses, an AudioMix each
    frames_processed, \* AudioMixer::frames_processed
    bus_pc,          \* where process_all_mixes is on each bus: "idle" when
                     \* not running, "todo", "retain" (write lock held,
                     \* between send loop and retain) or "done"
    process_from     \* history: the buses and queues as the running
                     \* process_all_mixes call found them, None once a client
                     \* or an encoder has acted since

\* The kernels: buffers handed to clamp_audio and clamp_audio_channels
\* (clamping.rs)
VARIABLES
    clamp_buffers,   \* the channels being clamped, a sequence of samples each
    has_avx,         \* is_x86_feature_detected!("avx") on this machine
    clamp_last,      \* history: the kernel last called, the channels it was
                     \* called on and the buffers as it found them
    clamped_channels, \* history: the channels a kernel has been called on
    clamp_budget     \* calls the client may make

\* The kernels: buffers handed to compress_uyvy_to_nv12 (format_conversion.rs)
VARIABLES
    conv_input,      \* the UYVY image, a sequence of bytes
    conv_shape,      \* width, height and the three linesizes of the call
    conv_out,        \* output_y and output_uv, sequences of bytes
    has_avx2,        \* is_x86_feature_detected!("avx2") on this machine
    conv_last        \* history: the function last called and the output
                     \* buffers as it found them

\* A FramePool with the planes of its frames (frame_pool.rs)
VARIABLES
    alloc_pool,      \* format, width, height and frames of the pool; a frame
                     \* has data (four plane pointers), linesize and in_use
    alloc_ret        \* what the last acquire returned (None before the first
                     \* and when the pool was exhausted)

\* The crop calculators (transform.rs, types.rs)
VARIABLES
    crop_in,         \* the item (crop and bounds_crop) and the source size the
                     \* calculators are called with
    crop_out         \* what calc_cx, calc_cy, calc_width and calc_height
                     \* returned, None before the calls

\* A clone of the Scene (scene.rs)
VARIABLES
    clone_id_counter \* id_counter of the clone, 0 while there is no clone

videoVars == <<frames, locked, frame_queue, encoders, channels, worker_pc, cached,
               total_frames, skipped_frames, running, thread_handle, ret, pushed,
               submitted, budget>>
poolVars == <<pool, pool_mutex, clients>>
sceneVars == <<items, id_counter, adders, returned, scene_ret, render_count, renderers,
               scene_budget>>
mixerVars == <<mixes, frames_processed, bus_pc, process_from>>
audioVars == <<mix, mixed, audio_budget, audio_channels, mix_pc, mixerVars>>
convVars == <<conv_input, conv_shape, conv_out, has_avx2, conv_last>>
allocVars == <<alloc_pool, alloc_ret>>
cropVars == <<crop_in, crop_out>>
cloneVars == <<clone_id_counter>>
kernelVars == <<clamp_buffers, has_avx, clamp_last, clamped_channels, clamp_budget,
                convVars, allocVars, cropVars, cloneVars>>
vars == <<videoVars, poolVars, sceneVars, audioVars, kernelVars>>

None == [none |-> TRUE]

(***************************************************************************)
(* FramePool (frame_pool.rs)                                               *)
(***************************************************************************)
\* Address of plane 0 of the i-th slot: one aligned allocation per slot.
SlotPtr(i) == i * FRAME_ALIGNMENT

\* FramePool::new: capacity slots, none in use.
NewPool(capacity) == [i \in 1..capacity |-> [data |-> SlotPtr(i), in_use |-> FALSE]]

\* The slot the scan of acquire stops at: the first one not in use, 0 if none.
FirstFree(fs) ==
    IF \E i \in 1..Len(fs) : ~fs[i].in_use
    THEN CHOOSE i \in 1..Len(fs) : ~fs[i].in_use /\ \A j \in 1..(i - 1) : fs[j].in_use
    ELSE 0

\* acquire: the frame returned (None when the pool is exhausted).
AcquireFrame(fs) ==
    IF FirstFree(fs) = 0 THEN None
    ELSE [data |-> fs[FirstFree(fs)].data, timestamp |-> 0]

\* acquire: the pool afterwards.
AcquirePool(fs) ==
    IF FirstFree(fs) = 0 THEN fs
    ELSE [fs EXCEPT ![FirstFree(fs)].in_use = TRUE]

\* The slot the scan of release stops at: the first whose data[0] matches.
MatchingSlot(fs, frame) ==
    IF \E i \in 1..Len(fs) : fs[i].data = frame.data
    THEN CHOOSE i \in 1..Len(fs) : fs[i].data = frame.data
                                   /\ \A j \in 1..(i - 1) : fs[j].data # frame.data
    ELSE 0

\* Mutant of ReleasePool: the matching slot is found but not cleared.
ReleasePool_Forget(fs, frame) == fs

\* release: the pool afterwards.
ReleasePool(fs, frame) ==
    IF MatchingSlot(fs, frame) = 0 THEN fs
    ELSE [fs EXCEPT ![MatchingSlot(fs, frame)].in_use = FALSE]

\* stats(): a snapshot under the mutex.
PoolStats(fs) ==
    LET in_use == Cardinality({i \in 1..Len(fs) : fs[i].in_use})
    IN [capacity |-> Len(fs), in_use |-> in_use, available |-> Len(fs) - in_use]

\* The threads that share the pool.
Clients == 1..MaxClients

\* VideoFrame::new: a frame of no pool, its plane pointers null (types.rs).
ForeignFrame == [data |-> 0, timestamp |-> 0]

IdleClient == [pc |-> "idle", arg |-> None, idx |-> 0, holds |-> {}, ret |-> None]

\* No FramePool of its own in use.
PoolIdle ==
    /\ pool = <<>>
    /\ pool_mutex = 0
    /\ clients = <<>>

\* FramePool::new(format, width, height, capacity), shared by the clients.
PoolInit ==
    /\ pool \in {NewPool(capacity) : capacity \in 1..MaxCapacity}
    /\ pool_mutex = 0
    /\ clients = [c \in Clients |-> IdleClient]

\* Mutant of MutexLock: the mutex does not exclude.
MutexLock_Racy(c) == pool_mutex' = c

\* self.frames.lock(): taken only when no thread holds it.
MutexLock(c) ==
    /\ pool_mutex = 0
    /\ pool_mutex' = c

\* acquire, entry: lock the frames.
AcquireLock(c) ==
    /\ clients[c].pc = "idle"
    /\ MutexLock(c)
    /\ clients' = [clients EXCEPT ![c].pc = "acquire_scan"]
    /\ UNCHANGED <<videoVars, sceneVars, audioVars, kernelVars, pool>>

\* acquire, the scan: stop at the first slot not in use, or fall out of the
\* loop and return None (the guard is dropped on return).
AcquireScan(c) ==
    /\ clients[c].pc = "acquire_scan"
    /\ IF FirstFree(pool) = 0
       THEN /\ clients' = [clients EXCEPT ![c].pc = "idle",
                                          ![c].ret = [op |-> "acquire", val |-> None]]
            /\ pool_mutex' = 0
       ELSE /\ clients' = [clients EXCEPT ![c].pc = "acquire_mark",
                                          ![c].idx = FirstFree(pool)]
            /\ UNCHANGED pool_mutex
    /\ UNCHANGED <<videoVars, sceneVars, audioVars, kernelVars, pool>>

\* acquire, the hit: mark the slot in use and return a VideoFrame on its planes.
AcquireMark(c) ==
    /\ clients[c].pc = "acquire_mark"
    /\ LET frame == [data |-> pool[clients[c].idx].data, timestamp |-> 0]
       IN  /\ pool' = [pool EXCEPT ![clients[c].idx].in_use = TRUE]
           /\ clients' = [clients EXCEPT ![c].pc = "idle", ![c].idx = 0,
                                         ![c].holds = @ \cup {frame},
                                         ![c].ret = [op |-> "acquire", val |-> frame]]
    /\ pool_mutex' = 0
    /\ UNCHANGED <<videoVars, sceneVars, audioVars, kernelVars>>

\* release(frame), entry: lock the frames. The caller passes a frame it holds,
\* or one that is of no pool.
ReleaseLock(c, frame) ==
    /\ clients[c].pc = "idle"
    /\ frame \in clients[c].holds \cup {ForeignFrame}
    /\ MutexLock(c)
    /\ clients' = [clients EXCEPT ![c].pc = "release_scan", ![c].arg = frame,
                                  ![c].holds = @ \ {frame}]
    /\ UNCHANGED <<videoVars, sceneVars, audioVars, kernelVars, pool>>

\* release, the scan: clear in_use of the first slot whose data[0] matches.
ReleaseScan(c) ==
    /\ clients[c].pc = "release_scan"
    /\ pool' = ReleasePool(pool, clients[c].arg)
    /\ clients' = [clients EXCEPT ![c].pc = "idle", ![c].arg = None,
                                  ![c].ret = [op |-> "release", val |-> clients[c].arg]]
    /\ pool_mutex' = 0
    /\ UNCHANGED <<videoVars, sceneVars, audioVars, kernelVars>>

(***************************************************************************)
(* VideoOutput (video_output.rs)                                           *)
(***************************************************************************)
\* The capture clock the graphics thread stamps the n-th submitted frame with.
Timestamp(n) == n

\* Mutant of QueueFull: the capacity test off by one.
QueueFull_OffByOne(q) == Len(q) > MAX_CACHE_SIZE

\* Mutant of QueueFull: a queue without capacity.
QueueFull_Never(q) == FALSE

\* ArrayQueue::push on frame_queue: fails when MAX_CACHE_SIZE are queued.
QueueFull(q) == Len(q) >= MAX_CACHE_SIZE

\* lock_frame: pool.acquire().
LockFrame ==
    /\ thread_handle # "joining"
    /\ budget.locks > 0
    /\ locked = None
    /\ frames' = AcquirePool(frames)
    /\ locked' = AcquireFrame(frames)
    /\ ret' = [op |-> "lock_frame", val |-> AcquireFrame(frames)]
    /\ budget' = [budget EXCEPT !.locks = @ - 1]
    /\ UNCHANGED <<poolVars, sceneVars, audioVars, kernelVars, frame_queue, encoders, channels, worker_pc, cached, total_frames,
                   skipped_frames, running, thread_handle, pushed, submitted>>

\* unlock_frame(frame, timestamp).
UnlockFrame(frame, timestamp) ==
    /\ thread_handle # "joining"
    /\ frame = locked
    /\ frame # None
    /\ locked' = None
    /\ submitted' = submitted + 1
    /\ LET stamped == [frame EXCEPT !.timestamp = timestamp]
           entry == [frame |-> stamped, _timestamp |-> timestamp]
       IN IF ~QueueFull(frame_queue)
          THEN /\ frame_queue' = Append(frame_queue, entry)
               /\ pushed' = Append(pushed, stamped)
               /\ ret' = [op |-> "unlock_frame", val |-> TRUE]
               /\ UNCHANGED <<skipped_frames, frames>>
          ELSE /\ skipped_frames' = skipped_frames + 1
               /\ frames' = ReleasePool(frames, stamped)
               /\ ret' = [op |-> "unlock_frame", val |-> FALSE]
               /\ UNCHANGED <<frame_queue, pushed>>
    /\ UNCHANGED <<poolVars, sceneVars, audioVars, kernelVars, encoders, channels, worker_pc, cached, total_frames, running,
                   thread_handle, budget>>

\* The worker's loop test: while running.load().
WorkerCheck ==
    /\ worker_pc = "check"
    /\ worker_pc' = IF running THEN "pop" ELSE "exited"
    /\ UNCHANGED <<poolVars, sceneVars, audioVars, kernelVars, frames, locked, frame_queue, encoders, channels, cached,
                   total_frames, skipped_frames, running, thread_handle, ret, pushed,
                   submitted, budget>>

\* frame_queue.pop(): a frame to distribute, or sleep and test the flag again.
WorkerPop ==
    /\ worker_pc = "pop"
    /\ IF frame_queue # <<>>
       THEN /\ cached' = Head(frame_queue)
            /\ frame_queue' = Tail(frame_queue)
            /\ worker_pc' = "fanout"
       ELSE /\ worker_pc' = "check"
            /\ UNCHANGED <<cached, frame_queue>>
    /\ UNCHANGED <<poolVars, sceneVars, audioVars, kernelVars, frames, locked, encoders, channels, total_frames, skipped_frames,
                   running, thread_handle, ret, pushed, submitted, budget>>

\* Sender::try_send: Disconnected when the receiver is gone, Full at capacity.
TrySend(chan, frame) ==
    IF ~chan.rx_alive \/ Len(chan.buf) >= ENCODER_QUEUE_CAP THEN chan
    ELSE [chan EXCEPT !.buf = Append(@, frame)]

\* Mutant of IsFull: no queue is ever reported full.
IsFull_Never(chan) == FALSE

\* Sender::is_full.
IsFull(chan) == Len(chan.buf) >= ENCODER_QUEUE_CAP

\* Mutant of DivisorReached: > in place of >=.
DivisorReached_Strict(enc) == enc.frame_count + 1 > enc.frame_rate_divisor

\* The divisor test of the fan-out loop, on the counter after its increment.
DivisorReached(enc) == enc.frame_count + 1 >= enc.frame_rate_divisor

\* Mutant of StepEncoder: the counter is never reset.
StepEncoder_NoReset(enc) == [enc EXCEPT !.frame_count = @ + 1]

\* One iteration of the fan-out loop on a connection.
StepEncoder(enc) ==
    [enc EXCEPT !.frame_count = IF DivisorReached(enc) THEN 0 ELSE @ + 1]

\* encoders.retain(|enc| !enc.tx.is_full()).
RECURSIVE Retain(_, _)
Retain(encs, chans) ==
    IF encs = <<>> THEN <<>>
    ELSE IF IsFull(chans[Head(encs).tx]) THEN Retain(Tail(encs), chans)
         ELSE <<Head(encs)>> \o Retain(Tail(encs), chans)

\* The channels after the fan-out loop sent `frame` on every connection due.
FanOut(encs, chans, frame) ==
    [c \in DOMAIN chans |->
        IF \E i \in 1..Len(encs) : encs[i].tx = c /\ DivisorReached(encs[i])
        THEN TrySend(chans[c], frame)
        ELSE chans[c]]

\* Is the connection that sends on channel c in the encoder list?
Connected(encs, c) == \E i \in 1..Len(encs) : encs[i].tx = c

\* History: note on each channel whether the worker's retain removed its
\* connection.
NoteReaped(chans, before, after) ==
    [c \in DOMAIN chans |->
        IF Connected(before, c) /\ ~Connected(after, c)
        THEN [chans[c] EXCEPT !.reaped = TRUE]
        ELSE chans[c]]

\* Mutant of WorkerFanout: a frame popped while no encoder is connected is
\* not counted.
WorkerFanout_CountIfSent ==
    /\ worker_pc = "fanout"
    /\ LET sent == FanOut(encoders, channels, cached.frame)
           stepped == [i \in 1..Len(encoders) |-> StepEncoder(encoders[i])]
       IN /\ channels' = NoteReaped(sent, stepped, Retain(stepped, sent))
          /\ encoders' = Retain(stepped, sent)
    /\ total_frames' = IF encoders = <<>> THEN total_frames ELSE total_frames + 1
    /\ cached' = None
    /\ worker_pc' = "check"
    /\ UNCHANGED <<poolVars, sceneVars, audioVars, kernelVars, frames, locked, frame_queue, skipped_frames, running,
                   thread_handle, ret, pushed, submitted, budget>>

\* The body of the loop for a popped frame, under encoders.write().
WorkerFanout ==
    /\ worker_pc = "fanout"
    /\ LET sent == FanOut(encoders, channels, cached.frame)
           stepped == [i \in 1..Len(encoders) |-> StepEncoder(encoders[i])]
       IN /\ channels' = NoteReaped(sent, stepped, Retain(stepped, sent))
          /\ encoders' = Retain(stepped, sent)
    /\ total_frames' = total_frames + 1
    /\ cached' = None
    /\ worker_pc' = "check"
    /\ UNCHANGED <<poolVars, sceneVars, audioVars, kernelVars, frames, locked, frame_queue, skipped_frames, running,
                   thread_handle, ret, pushed, submitted, budget>>

\* connect_encoder(frame_rate_divisor); id is rand::random().
ConnectEncoder(id, frame_rate_divisor) ==
    /\ thread_handle # "joining"
    /\ budget.connects > 0
    /\ budget' = [budget EXCEPT !.connects = @ - 1]
    /\ channels' = Append(channels,
                          [buf |-> <<>>, rx_alive |-> TRUE, received |-> <<>>,
                           divisor |-> frame_rate_divisor, joined |-> total_frames,
                           reaped |-> FALSE])
    /\ encoders' = Append(encoders,
                          [id |-> id, frame_rate_divisor |-> frame_rate_divisor,
                           frame_count |-> 0, tx |-> Len(channels) + 1])
    /\ UNCHANGED <<poolVars, sceneVars, audioVars, kernelVars, frames, locked, frame_queue, worker_pc, cached, total_frames,
                   skipped_frames, running, thread_handle, ret, pushed, submitted>>

\* disconnect_encoder(encoder_id): retain(|enc| enc.id != encoder_id).
RECURSIVE RetainOtherIds(_, _)
RetainOtherIds(encs, encoder_id) ==
    IF encs = <<>> THEN <<>>
    ELSE IF Head(encs).id = encoder_id THEN RetainOtherIds(Tail(encs), encoder_id)
         ELSE <<Head(encs)>> \o RetainOtherIds(Tail(encs), encoder_id)

DisconnectEncoder(encoder_id) ==
    /\ thread_handle # "joining"
    /\ budget.churn
    /\ \E i \in 1..Len(encoders) : encoders[i].id = encoder_id
    /\ encoders' = RetainOtherIds(encoders, encoder_id)
    /\ UNCHANGED <<poolVars, sceneVars, audioVars, kernelVars, frames, locked, frame_queue, channels, worker_pc, cached,
                   total_frames, skipped_frames, running, thread_handle, ret, pushed,
                   submitted, budget>>

\* The encoder's side: Receiver::try_recv takes the oldest queued frame.
EncoderRecv(c) ==
    /\ channels[c].rx_alive
    /\ channels[c].buf # <<>>
    /\ channels' = [channels EXCEPT ![c].buf = Tail(@),
                                    ![c].received = Append(@, Head(channels[c].buf))]
    /\ UNCHANGED <<poolVars, sceneVars, audioVars, kernelVars, frames, locked, frame_queue, encoders, worker_pc, cached,
                   total_frames, skipped_frames, running, thread_handle, ret, pushed,
                   submitted, budget>>

\* The encoder drops its Receiver: the channel disconnects and its queued
\* frames are discarded.
EncoderDrop(c) ==
    /\ channels[c].rx_alive
    /\ budget.churn
    /\ channels' = [channels EXCEPT ![c].rx_alive = FALSE, ![c].buf = <<>>]
    /\ UNCHANGED <<poolVars, sceneVars, audioVars, kernelVars, frames, locked, frame_queue, encoders, worker_pc, cached,
                   total_frames, skipped_frames, running, thread_handle, ret, pushed,
                   submitted, budget>>

\* shutdown(): store running = false, take the handle and start joining.
Shutdown ==
    /\ thread_handle # "joining"
    /\ budget.shutdowns > 0
    /\ budget' = [budget EXCEPT !.shutdowns = @ - 1]
    /\ running' = FALSE
    /\ thread_handle' = IF thread_handle = "some" THEN "joining" ELSE thread_handle
    /\ UNCHANGED <<poolVars, sceneVars, audioVars, kernelVars, frames, locked, frame_queue, encoders, channels, worker_pc, cached,
                   total_frames, skipped_frames, ret, pushed, submitted>>

\* A join that returns without waiting for the thread.
ShutdownJoined_NoWait ==
    /\ thread_handle = "joining"
    /\ thread_handle' = "none"
    /\ UNCHANGED <<poolVars, sceneVars, audioVars, kernelVars, frames, locked, frame_queue, encoders, channels, worker_pc, cached,
                   total_frames, skipped_frames, running, ret, pushed, submitted,
                   budget>>

\* handle.join() returns once the distribution thread has exited.
ShutdownJoined ==
    /\ thread_handle = "joining"
    /\ worker_pc = "exited"
    /\ thread_handle' = "none"
    /\ UNCHANGED <<poolVars, sceneVars, audioVars, kernelVars, frames, locked, frame_queue, encoders, channels, worker_pc, cached,
                   total_frames, skipped_frames, running, ret, pushed, submitted,
                   budget>>

\* Drop for VideoOutput, after the shutdown() it begins with has returned (the
\* flag is cleared and the handle taken and joined: Shutdown and
\* ShutdownJoined above, or an earlier shutdown(), after which that call
\* changes nothing): the fields are dropped, the queue, the encoder
\* connections and the frame pool, whose Drop frees every frame. The owner
\* holds no locked frame, and no call can follow.
DropFields ==
    /\ thread_handle = "none"
    /\ ~running
    /\ locked = None
    /\ frames # <<>>
    /\ frame_queue' = <<>>
    /\ encoders' = <<>>
    /\ frames' = <<>>
    /\ budget' = [locks |-> 0, connects |-> 0, churn |-> FALSE, shutdowns |-> 0]
    /\ UNCHANGED <<poolVars, sceneVars, audioVars, kernelVars, locked, channels, worker_pc, cached,
                   total_frames, skipped_frames, running, thread_handle, ret, pushed,
                   submitted>>

\* What the environment does in one run: how many lock_frame calls and
\* connect_encoder calls it makes, whether encoders disconnect or drop their
\* receiver (churn), and whether it shuts the output down.
Scenarios ==
    { [locks |-> LocksNoEncoder, connects |-> 0, churn |-> FALSE, shutdowns |-> 1],
      [locks |-> LocksOneEncoder, connects |-> 1, churn |-> FALSE, shutdowns |-> 0],
      [locks |-> LocksTwoEncoders, connects |-> 2, churn |-> FALSE, shutdowns |-> 0],
      [locks |-> LocksChurn, connects |-> 2, churn |-> TRUE, shutdowns |-> 0] }

\* VideoOutput::new: empty queue, no encoders, pool of MAX_CACHE_SIZE + 4 frames,
\* counters 0, running, distribution thread spawned.
VideoInit ==
    /\ frames = NewPool(MAX_CACHE_SIZE + POOL_EXTRA_FRAMES)
    /\ locked = None
    /\ frame_queue = <<>>
    /\ encoders = <<>>
    /\ channels = <<>>
    /\ worker_pc = "check"
    /\ cached = None
    /\ total_frames = 0
    /\ skipped_frames = 0
    /\ running = TRUE
    /\ thread_handle = "some"
    /\ ret = None
    /\ pushed = <<>>
    /\ submitted = 0
    /\ budget \in Scenarios

(***************************************************************************)
(* Scene (scene.rs)                                                        *)
(***************************************************************************)
\* The threads that call add_item.
Adders == 1..MaxAdders

\* Source handles of the items added (the tests use 100 and 200).
Sources == {100, 200}

\* Ids passed to remove_item, move_item, reorder_items and update_item: ids
\* add_item may have returned, and 0, which it never returns.
CallIds == 0..MaxAdds

\* Vec2::ZERO, Vec2::ONE, SceneItemCrop::default(), and the matrix
\* translate(t) * scale(s), which is what the products of update_item_transform
\* come to at rotation 0.
Vec2Zero == <<0, 0>>
Vec2One == <<1, 1>>
CropDefault == [left |-> 0, right |-> 0, top |-> 0, bottom |-> 0]
Mat4(t, s) == [tx |-> t[1], ty |-> t[2], sx |-> s[1], sy |-> s[2]]
Mat4Identity == Mat4(Vec2Zero, Vec2One)

\* SceneItem::new(id, source_id): visible, transform dirty, no size known.
\* The fields no operation of the model writes (scale ONE, rotation 0,
\* alignment CENTER, bounds_type None, crop default) are left out of the
\* record and used with these values.
SceneItemNew(id, source_id) ==
    [id |-> id, source_id |-> source_id, visible |-> TRUE, transform_dirty |-> TRUE,
     pos |-> Vec2Zero, bounds_crop |-> CropDefault,
     draw_transform |-> Mat4Identity, box_transform |-> Mat4Identity,
     output_scale |-> Vec2One, box_scale |-> Vec2Zero,
     last_width |-> 0, last_height |-> 0]

\* The threads that call render_items, and one of them outside the call.
Renderers == 1..MaxRenderers
IdleRenderer == [pc |-> "idle", idx |-> 0, visited |-> <<>>, snapshot |-> <<>>]

\* Scene::new: no items, id counter 1.
SceneInit ==
    /\ items = <<>>
    /\ id_counter = 1
    /\ adders = [t \in Adders |-> None]
    /\ returned = <<>>
    /\ scene_ret = None
    /\ render_count = 0
    /\ renderers = [r \in Renderers |-> IdleRenderer]

\* self.items.write() of an ignorant lock: granted at once.
WriteLockFree_Unguarded == TRUE

\* self.items.write() is granted when no render_items holds the read lock (the
\* operations that write are steps of their own, so never two at a time).
WriteLockFree == \A r \in DOMAIN renderers : renderers[r].pc = "idle"

\* add_item numbering the item by its position in the list instead of by the
\* counter.
AddItemFetch_LenBased(t, item) ==
    /\ adders[t] = None
    /\ t <= scene_budget.threads
    /\ id_counter <= scene_budget.adds
    /\ id_counter' = id_counter + 1
    /\ adders' = [adders EXCEPT ![t] = [item EXCEPT !.id = Len(items) + 1,
                                                   !.transform_dirty = TRUE]]
    /\ UNCHANGED <<videoVars, poolVars, audioVars, kernelVars, items, returned, scene_ret, render_count, renderers,
                   scene_budget>>

\* add_item, before the write lock: id_counter.fetch_add(1), item.id = id,
\* mark_transform_dirty.
AddItemFetch(t, item) ==
    /\ adders[t] = None
    /\ t <= scene_budget.threads
    /\ id_counter <= scene_budget.adds
    /\ id_counter' = id_counter + 1
    /\ adders' = [adders EXCEPT ![t] = [item EXCEPT !.id = id_counter,
                                                   !.transform_dirty = TRUE]]
    /\ UNCHANGED <<videoVars, poolVars, audioVars, kernelVars, items, returned, scene_ret, render_count, renderers,
                   scene_budget>>

\* add_item, under the write lock: push the item and return its id.
AddItemPush(t) ==
    /\ adders[t] # None
    /\ WriteLockFree
    /\ items' = Append(items, adders[t])
    /\ returned' = Append(returned, adders[t].id)
    /\ scene_ret' = [op |-> "add_item", val |-> adders[t].id]
    /\ adders' = [adders EXCEPT ![t] = None]
    /\ UNCHANGED <<videoVars, poolVars, audioVars, kernelVars, id_counter, render_count, renderers, scene_budget>>

\* items.iter().position(|item| item.id == id): 0 when there is none.
Position(its, id) ==
    IF \E i \in 1..Len(its) : its[i].id = id
    THEN CHOOSE i \in 1..Len(its) : its[i].id = id /\ \A j \in 1..(i - 1) : its[j].id # id
    ELSE 0

\* Vec::remove(pos) and Vec::insert(pos, item), positions counted from 1.
VecRemove(its, pos) == SubSeq(its, 1, pos - 1) \o SubSeq(its, pos + 1, Len(its))
VecInsert(its, pos, item) ==
    SubSeq(its, 1, pos - 1) \o <<item>> \o SubSeq(its, pos, Len(its))

\* remove_item that fills the gap with the last item (Vec::swap_remove).
RemoveItem_SwapRemove(id) ==
    /\ WriteLockFree
    /\ IF Position(items, id) # 0
       THEN /\ items' = SubSeq([items EXCEPT ![Position(items, id)] = items[Len(items)]],
                               1, Len(items) - 1)
            /\ scene_ret' = [op |-> "remove_item", val |-> TRUE]
       ELSE /\ items' = items
            /\ scene_ret' = [op |-> "remove_item", val |-> FALSE]
    /\ UNCHANGED <<videoVars, poolVars, audioVars, kernelVars, id_counter, adders, returned, render_count, renderers,
                   scene_budget>>

\* remove_item(id).
RemoveItem(id) ==
    /\ WriteLockFree
    /\ IF Position(items, id) # 0
       THEN /\ items' = VecRemove(items, Position(items, id))
            /\ scene_ret' = [op |-> "remove_item", val |-> TRUE]
       ELSE /\ items' = items
            /\ scene_ret' = [op |-> "remove_item", val |-> FALSE]
    /\ UNCHANGED <<videoVars, poolVars, audioVars, kernelVars, id_counter, adders, returned, render_count, renderers,
                   scene_budget>>

\* move_item that swaps the item with the one at new_index.
MoveItem_Swap(id, new_index) ==
    /\ WriteLockFree
    /\ IF Position(items, id) # 0 /\ new_index < Len(items)
       THEN /\ items' = [items EXCEPT ![Position(items, id)] = items[new_index + 1],
                                      ![new_index + 1] = items[Position(items, id)]]
            /\ scene_ret' = [op |-> "move_item", val |-> TRUE]
       ELSE /\ items' = items
            /\ scene_ret' = [op |-> "move_item", val |-> FALSE]
    /\ UNCHANGED <<videoVars, poolVars, audioVars, kernelVars, id_counter, adders, returned, render_count, renderers,
                   scene_budget>>

\* move_item(id, new_index), new_index counted from 0 as in the code.
MoveItem(id, new_index) ==
    /\ WriteLockFree
    /\ IF Position(items, id) # 0 /\ new_index < Len(items)
       THEN /\ items' = VecInsert(VecRemove(items, Position(items, id)),
                                  new_index + 1, items[Position(items, id)])
            /\ scene_ret' = [op |-> "move_item", val |-> TRUE]
       ELSE /\ items' = items
            /\ scene_ret' = [op |-> "move_item", val |-> FALSE]
    /\ UNCHANGED <<videoVars, poolVars, audioVars, kernelVars, id_counter, adders, returned, render_count, renderers,
                   scene_budget>>

\* reorder_items: the HashMap collected from the drained items; of items with
\* the same id the last one stays.
ItemMap(its) ==
    [id \in {its[i].id : i \in 1..Len(its)} |->
        its[CHOOSE i \in 1..Len(its) :
                its[i].id = id /\ \A j \in (i + 1)..Len(its) : its[j].id # id]]

\* reorder_items: the ids of the order list found in the map, each removed from
\* the map when it is found.
RECURSIVE Listed(_, _)
Listed(order, avail) ==
    IF order = <<>> THEN <<>>
    ELSE IF Head(order)[1] \in avail
         THEN <<Head(order)[1]>> \o Listed(Tail(order), avail \ {Head(order)[1]})
         ELSE Listed(Tail(order), avail)

\* The orders HashMap::into_values may yield the values of the ids in S in.
Enumerations(S) ==
    {s \in [1..Cardinality(S) -> S] : \A i, j \in 1..Cardinality(S) : s[i] = s[j] => i = j}

\* reorder_items(order): the listed items first, then the items left in the
\* map in whatever order into_values yields them.
ReorderItems(order) ==
    LET map == ItemMap(items)
        first == Listed(order, DOMAIN map)
    IN  /\ WriteLockFree
        /\ \E rest \in Enumerations(DOMAIN map \ {first[k] : k \in 1..Len(first)}) :
               items' = [k \in 1..Len(first \o rest) |-> map[(first \o rest)[k]]]
        /\ scene_ret' = [op |-> "reorder_items"]
        /\ UNCHANGED <<videoVars, poolVars, audioVars, kernelVars, id_counter, adders, returned, render_count, renderers,
                   scene_budget>>

\* The closures passed to update_item.
Mutators == {"hide", "show", "nothing"}
Mutate(item, mutator) ==
    IF mutator = "hide" THEN [item EXCEPT !.visible = FALSE]
    ELSE IF mutator = "show" THEN [item EXCEPT !.visible = TRUE]
    ELSE IF mutator = "move" THEN [item EXCEPT !.pos = <<100, 200>>]
    ELSE item

\* update_item that marks the item dirty only if the closure changed it.
UpdateItem_DirtyIfChanged(id, mutator) ==
    /\ WriteLockFree
    /\ IF Position(items, id) # 0
       THEN /\ items' = [items EXCEPT ![Position(items, id)] =
                            IF Mutate(@, mutator) = @ THEN @
                            ELSE [Mutate(@, mutator) EXCEPT !.transform_dirty = TRUE]]
            /\ scene_ret' = [op |-> "update_item", val |-> TRUE]
       ELSE /\ items' = items
            /\ scene_ret' = [op |-> "update_item", val |-> FALSE]
    /\ UNCHANGED <<videoVars, poolVars, audioVars, kernelVars, id_counter, adders, returned, render_count, renderers,
                   scene_budget>>

\* update_item(id, update_fn): the first item with the id is mutated and marked
\* dirty.
UpdateItem(id, mutator) ==
    /\ WriteLockFree
    /\ IF Position(items, id) # 0
       THEN /\ items' = [items EXCEPT ![Position(items, id)] =
                            [Mutate(@, mutator) EXCEPT !.transform_dirty = TRUE]]
            /\ scene_ret' = [op |-> "update_item", val |-> TRUE]
       ELSE /\ items' = items
            /\ scene_ret' = [op |-> "update_item", val |-> FALSE]
    /\ UNCHANGED <<videoVars, poolVars, audioVars, kernelVars, id_counter, adders, returned, render_count, renderers,
                   scene_budget>>

\* add_alignment(pos, align, cx, cy) for Alignment::CENTER: half of cx and cy,
\* halved as integers.
AddAlignment(pos, cx, cy) == <<pos[1] + (cx \div 2), pos[2] + (cy \div 2)>>

\* item.crop; the default for the items of the scene model, whose record
\* leaves the field out.
CropOf(item) == IF "crop" \in DOMAIN item THEN item.crop ELSE CropDefault

\* calc_cx / calc_cy. The sums are cast with `as u32`, which changes nothing
\* for the crops of the model, all >= 0.
CalcCx(item, width) ==
    LET crop_cx == CropOf(item).left + CropOf(item).right
                   + item.bounds_crop.left + item.bounds_crop.right
    IN  IF crop_cx > width THEN 2 ELSE width - crop_cx
CalcCy(item, height) ==
    LET crop_cy == CropOf(item).top + CropOf(item).bottom
                   + item.bounds_crop.top + item.bounds_crop.bottom
    IN  IF crop_cy > height THEN 2 ELSE height - crop_cy

\* SceneItemCrop::calc_width / calc_height.
CalcWidth(self, original_width) ==
    LET crop_total == self.left + self.right
    IN  IF crop_total >= original_width THEN 2 ELSE original_width - crop_total
CalcHeight(self, original_height) ==
    LET crop_total == self.top + self.bottom
    IN  IF crop_total >= original_height THEN 2 ELSE original_height - crop_total

\* update_item_transform that computes whether the item is dirty or not.
UpdateItemTransform_NoSkip(item, source_width, source_height) ==
    LET width == CalcCx([item EXCEPT !.bounds_crop = CropDefault], source_width)
        height == CalcCy([item EXCEPT !.bounds_crop = CropDefault], source_height)
        half == AddAlignment(Vec2Zero, width, height)
    IN  [item EXCEPT
            !.bounds_crop = CropDefault,
            !.last_width = source_width,
            !.last_height = source_height,
            !.draw_transform = Mat4(<<item.pos[1] - half[1], item.pos[2] - half[2]>>, Vec2One),
            !.output_scale = Vec2One,
            !.box_scale = <<width, height>>,
            !.box_transform = Mat4(<<item.pos[1] - half[1], item.pos[2] - half[2]>>,
                                   <<width, height>>),
            !.transform_dirty = FALSE]

\* update_item_transform(item, source_width, source_height), for bounds_type
\* None, scale ONE and rotation 0: nothing on a clean item, else the cached
\* values from pos and the source size, and the item clean.
UpdateItemTransform(item, source_width, source_height) ==
    IF ~item.transform_dirty THEN item
    ELSE LET reset == [item EXCEPT !.bounds_crop = CropDefault]
             width == CalcCx(reset, source_width)
             height == CalcCy(reset, source_height)
             scale == Vec2One
             origin == AddAlignment(Vec2Zero, width * scale[1], height * scale[2])
             box_scale == <<scale[1] * width, scale[2] * height>>
             base_origin == AddAlignment(Vec2Zero, box_scale[1], box_scale[2])
         IN  [reset EXCEPT
                 !.last_width = source_width,
                 !.last_height = source_height,
                 !.draw_transform = Mat4(<<item.pos[1] - origin[1],
                                           item.pos[2] - origin[2]>>, scale),
                 !.output_scale = scale,
                 !.box_scale = box_scale,
                 !.box_transform = Mat4(<<item.pos[1] - base_origin[1],
                                          item.pos[2] - base_origin[2]>>, box_scale),
                 !.transform_dirty = FALSE]

\* SceneItem::source_size_changed.
SourceSizeChanged(item, width, height) ==
    item.last_width # width \/ item.last_height # height

\* The HashMap collected from source_dimensions: of the entries of one source
\* the last one stays.
DimMap(source_dimensions) ==
    [s \in {source_dimensions[k][1] : k \in 1..Len(source_dimensions)} |->
        LET last == CHOOSE k \in 1..Len(source_dimensions) :
                        /\ source_dimensions[k][1] = s
                        /\ \A j \in (k + 1)..Len(source_dimensions) :
                               source_dimensions[j][1] # s
        IN  <<source_dimensions[last][2], source_dimensions[last][3]>>]

\* update_transforms that gives an item whose source has no entry the size of
\* some source that has one.
TransformUpdated_AnySource(item, dim_map) ==
    IF DOMAIN dim_map # {}
    THEN LET s == IF item.source_id \in DOMAIN dim_map THEN item.source_id
                  ELSE CHOOSE x \in DOMAIN dim_map : TRUE
         IN  IF item.transform_dirty \/ SourceSizeChanged(item, dim_map[s][1], dim_map[s][2])
             THEN UpdateItemTransform(item, dim_map[s][1], dim_map[s][2])
             ELSE item
    ELSE item

\* update_transforms: the body of the loop over the items, for one item.
TransformUpdated(item, dim_map) ==
    IF item.source_id \in DOMAIN dim_map
    THEN LET width == dim_map[item.source_id][1]
             height == dim_map[item.source_id][2]
         IN  IF item.transform_dirty \/ SourceSizeChanged(item, width, height)
             THEN UpdateItemTransform(item, width, height)
             ELSE item
    ELSE item

\* update_transforms(source_dimensions).
UpdateTransforms(source_dimensions) ==
    LET dim_map == DimMap(source_dimensions)
    IN  /\ WriteLockFree
        /\ items' = [i \in 1..Len(items) |-> TransformUpdated(items[i], dim_map)]
        /\ scene_ret' = [op |-> "update_transforms", val |-> source_dimensions]
        /\ UNCHANGED <<videoVars, poolVars, audioVars, kernelVars, id_counter, adders, returned, render_count,
                       renderers, scene_budget>>

\* render_items: render_count.fetch_add(1) and self.items.read(); the read
\* lock is granted whenever no operation that writes is under way.
RenderLock(r) ==
    /\ renderers[r].pc = "idle"
    /\ render_count < scene_budget.renders
    /\ render_count' = render_count + 1
    /\ renderers' = [renderers EXCEPT ![r] = [pc |-> "iterating", idx |-> 1,
                                               visited |-> <<>>, snapshot |-> items]]
    /\ UNCHANGED <<videoVars, poolVars, audioVars, kernelVars, items, id_counter, adders, returned, scene_ret,
                   scene_budget>>

\* render_items whose loop calls the callback for every item.
RenderVisit_All(r) ==
    /\ renderers[r].pc = "iterating"
    /\ renderers[r].idx <= Len(items)
    /\ renderers' = [renderers EXCEPT
            ![r].idx = @ + 1,
            ![r].visited = Append(@, items[renderers[r].idx])]
    /\ UNCHANGED <<videoVars, poolVars, audioVars, kernelVars, items, id_counter, adders, returned, scene_ret,
                   render_count, scene_budget>>

\* render_items: one turn of the loop, the callback called if the item is
\* visible.
RenderVisit(r) ==
    /\ renderers[r].pc = "iterating"
    /\ renderers[r].idx <= Len(items)
    /\ renderers' = [renderers EXCEPT
            ![r].idx = @ + 1,
            ![r].visited = IF items[renderers[r].idx].visible
                           THEN Append(@, items[renderers[r].idx]) ELSE @]
    /\ UNCHANGED <<videoVars, poolVars, audioVars, kernelVars, items, id_counter, adders, returned, scene_ret,
                   render_count, scene_budget>>

\* render_items: the loop is over, the read lock is dropped.
RenderReturn(r) ==
    /\ renderers[r].pc = "iterating"
    /\ renderers[r].idx > Len(items)
    /\ renderers' = [renderers EXCEPT ![r] = IdleRenderer]
    /\ UNCHANGED <<videoVars, poolVars, audioVars, kernelVars, items, id_counter, adders, returned, scene_ret,
                   render_count, scene_budget>>

\* RenderCommand::from_item (crop and scale_filter at their defaults) and
\* render_scene: one command for each item render_items passes on.
RenderCommandFromItem(item) ==
    [source_id |-> item.source_id, transform |-> item.draw_transform,
     use_item_texture |-> item.bounds_crop # CropDefault]
RenderScene(visited) == [k \in 1..Len(visited) |-> RenderCommandFromItem(visited[k])]

(***************************************************************************)
(* AudioMix (obs-audio-mix: types.rs, clamping.rs, mixer.rs)               *)
(***************************************************************************)
\* Samples are f32 in the code. The model counts them in tenths and adds them
\* exactly: 5 is 0.5, 15 is 1.5 and One is 1.0. NaN is the f32 that is not a
\* number; a sum with a NaN in it is NaN.
One == 10
NaN == 99999
AddSample(a, b) == IF a = NaN \/ b = NaN THEN NaN ELSE a + b

\* AudioData::new: channels vectors of frames zeros each.
AudioDataNew(channels_, frames_) ==
    [data |-> [c \in 1..channels_ |-> [f \in 1..frames_ |-> 0]], frames |-> frames_]

\* AudioData::clear: every sample of every channel set to 0.0.
AudioDataClear(audio) ==
    [audio EXCEPT !.data = [c \in DOMAIN audio.data |-> [f \in DOMAIN audio.data[c] |-> 0]]]

\* A clamp that takes 0.5 off a sample above 1.0 and adds 0.5 to one below
\* -1.0.
ClampSample_Attenuate(val) ==
    IF val = NaN THEN 0
    ELSE IF val > One THEN val - 5
    ELSE IF val < -One THEN val + 5
    ELSE val

\* clamp_audio_scalar, and clamp_audio_avx sample by sample: NaN becomes 0.0,
\* any other sample is clamped to [-1.0, 1.0].
ClampSample(val) ==
    IF val = NaN THEN 0
    ELSE IF val > One THEN One
    ELSE IF val < -One THEN -One
    ELSE val
ClampAudio(buffer) == [i \in DOMAIN buffer |-> ClampSample(buffer[i])]

\* clamp_audio_channels: clamp_audio on each channel.
ClampAudioChannels(buffers) == [c \in DOMAIN buffers |-> ClampAudio(buffers[c])]

\* AudioMix::new: both accumulators channels x frames_per_buffer zeros.
AudioMixNew(frames_per_buffer, channels_) ==
    [frames_per_buffer |-> frames_per_buffer,
     channels |-> channels_,
     buffer_clamped |-> AudioDataNew(channels_, frames_per_buffer),
     buffer_unclamped |-> AudioDataNew(channels_, frames_per_buffer),
     encoders |-> <<>>]

\* The two inner loops of mix_sources for one source: the sample of channel
\* ch_idx and frame frame_idx is added to the accumulator when the source has
\* it and ch_idx < channels and frame_idx < frames_per_buffer (the model counts
\* channels and frames from 1).
MixSource(m, data, source) ==
    [c \in DOMAIN data |->
        [f \in DOMAIN data[c] |->
            IF /\ c <= Len(source.data)
               /\ c <= m.channels
               /\ f <= Len(source.data[c])
               /\ f <= m.frames_per_buffer
            THEN AddSample(data[c][f], source.data[c][f])
            ELSE data[c][f]]]

\* The outer loop of mix_sources: the sources in slice order.
RECURSIVE MixAll(_, _, _)
MixAll(m, data, sources) ==
    IF sources = <<>> THEN data
    ELSE MixAll(m, MixSource(m, data, Head(sources)), Tail(sources))

\* The mix after the sources were added to the samples `start` of the unclamped
\* accumulator, these were copied to the clamped accumulator and clamped there.
Summed(m, start, sources) ==
    LET summed == MixAll(m, start, sources)
    IN  [m EXCEPT !.buffer_unclamped.data = summed,
                  !.buffer_clamped.data = ClampAudioChannels(summed)]

\* AudioMix::mix_sources without the two clear calls at its head.
MixSources_NoClear(sources) ==
    /\ mix_pc = "idle"
    /\ audio_budget.mixes > 0
    /\ Len(sources) <= audio_budget.sources
    /\ mix' = Summed(mix, mix.buffer_unclamped.data, sources)
    /\ mixed' = [sources |-> sources, before |-> mix.buffer_unclamped.data]
    /\ audio_budget' = [audio_budget EXCEPT !.mixes = @ - 1]
    /\ UNCHANGED <<videoVars, poolVars, sceneVars, kernelVars, mixerVars, audio_channels, mix_pc>>

\* AudioMix::mix_sources: clear both accumulators, add the sources into the
\* unclamped one, copy it to the clamped one and clamp that.
MixSources(sources) ==
    /\ mix_pc = "idle"
    /\ audio_budget.mixes > 0
    /\ Len(sources) <= audio_budget.sources
    /\ mix' = Summed(mix, AudioDataClear(mix.buffer_unclamped).data, sources)
    /\ mixed' = [sources |-> sources, before |-> mix.buffer_unclamped.data]
    /\ audio_budget' = [audio_budget EXCEPT !.mixes = @ - 1]
    /\ UNCHANGED <<videoVars, poolVars, sceneVars, kernelVars, mixerVars, audio_channels, mix_pc>>

\* AudioMix::connect_encoder(use_unclamped): a bounded(4) channel whose Sender
\* joins the connections and whose Receiver is returned.
MixConnectEncoder(use_unclamped) ==
    /\ mix_pc = "idle"
    /\ audio_budget.connects > 0
    /\ audio_budget' = [audio_budget EXCEPT !.connects = @ - 1]
    /\ audio_channels' = Append(audio_channels, [buf |-> <<>>, rx_alive |-> TRUE])
    /\ mix' = [mix EXCEPT !.encoders =
                   Append(@, [tx |-> Len(audio_channels) + 1,
                              use_unclamped |-> use_unclamped])]
    /\ UNCHANGED <<videoVars, poolVars, sceneVars, kernelVars, mixerVars, mixed, mix_pc>>

\* Sender::try_send on a connection's channel: Disconnected when the Receiver
\* is gone, Full when AUDIO_QUEUE_CAP are queued; the buffer is then dropped.
AudioTrySend(chan, data) ==
    IF ~chan.rx_alive \/ Len(chan.buf) >= AUDIO_QUEUE_CAP THEN chan
    ELSE [chan EXCEPT !.buf = Append(@, data)]

\* Sender::is_full.
AudioIsFull(chan) == Len(chan.buf) >= AUDIO_QUEUE_CAP

\* The buffer process() clones for a connection.
DataFor_Clamped(m, enc) == m.buffer_clamped
DataFor(m, enc) == IF enc.use_unclamped THEN m.buffer_unclamped ELSE m.buffer_clamped

\* The send loop of process(): one try_send on each connection of the mix.
Dispatch(m, chans) ==
    [c \in DOMAIN chans |->
        IF \E i \in 1..Len(m.encoders) : m.encoders[i].tx = c
        THEN LET enc == m.encoders[CHOOSE i \in 1..Len(m.encoders) : m.encoders[i].tx = c]
             IN  AudioTrySend(chans[c], DataFor(m, enc))
        ELSE chans[c]]

\* encoders.retain(|enc| !enc.tx.is_full()), and a retain that looks for the
\* connections whose Receiver is gone instead.
RECURSIVE RetainAlive(_, _)
RetainAlive(encs, chans) ==
    IF encs = <<>> THEN <<>>
    ELSE IF ~chans[Head(encs).tx].rx_alive THEN RetainAlive(Tail(encs), chans)
         ELSE <<Head(encs)>> \o RetainAlive(Tail(encs), chans)
RECURSIVE RetainNotFull(_, _)
RetainNotFull(encs, chans) ==
    IF encs = <<>> THEN <<>>
    ELSE IF AudioIsFull(chans[Head(encs).tx]) THEN RetainNotFull(Tail(encs), chans)
         ELSE <<Head(encs)>> \o RetainNotFull(Tail(encs), chans)

\* AudioMix::process, its send loop.
ProcessDispatch ==
    /\ mix_pc = "idle"
    /\ audio_budget.processes > 0
    /\ audio_budget' = [audio_budget EXCEPT !.processes = @ - 1]
    /\ audio_channels' = Dispatch(mix, audio_channels)
    /\ mix_pc' = "retain"
    /\ UNCHANGED <<videoVars, poolVars, sceneVars, kernelVars, mixerVars, mix, mixed>>

\* AudioMix::process, its retain; process() returns.
ProcessRetain ==
    /\ mix_pc = "retain"
    /\ mix' = [mix EXCEPT !.encoders = RetainNotFull(@, audio_channels)]
    /\ mix_pc' = "idle"
    /\ UNCHANGED <<videoVars, poolVars, sceneVars, kernelVars, mixerVars, mixed, audio_budget, audio_channels>>

\* The encoder's side: Receiver::try_recv takes the oldest queued buffer.
AudioRecv(c) ==
    /\ audio_channels[c].rx_alive
    /\ audio_channels[c].buf # <<>>
    /\ audio_channels' = [audio_channels EXCEPT ![c].buf = Tail(@)]
    /\ process_from' = None
    /\ UNCHANGED <<videoVars, poolVars, sceneVars, kernelVars, mix, mixed, audio_budget, mix_pc, mixes,
                   frames_processed, bus_pc>>

\* The encoder drops its Receiver: the channel disconnects. What is queued is
\* discarded or stays queued, as the channel implementation has it.
AudioDrop(c) ==
    /\ audio_channels[c].rx_alive
    /\ audio_budget.drops > 0
    /\ audio_budget' = [audio_budget EXCEPT !.drops = @ - 1]
    /\ \E discard \in BOOLEAN :
           audio_channels' = [audio_channels EXCEPT
                                  ![c].rx_alive = FALSE,
                                  ![c].buf = IF discard THEN <<>> ELSE @]
    /\ process_from' = None
    /\ UNCHANGED <<videoVars, poolVars, sceneVars, kernelVars, mix, mixed, mix_pc, mixes,
                   frames_processed, bus_pc>>

(***************************************************************************)
(* AudioMixer (mixer.rs)                                                   *)
(***************************************************************************)
\* AudioMixer::new(config): MAX_AUDIO_MIXES buses sized to the config.
AudioMixerNew(config) ==
    [k \in 1..MAX_AUDIO_MIXES |-> AudioMixNew(config.frames, config.channels)]

\* get_mix(index): the bus, or None; index counts from 0.
GetMix(index) == IF index < Len(mixes) THEN mixes[index + 1] ELSE None

\* The write lock of a bus is free: process_all_mixes is not inside process()
\* on it.
BusLockFree(k) == bus_pc[k] # "retain"

\* A client calls get_mix(index) and, on the bus it gets, under its write
\* lock, connect_encoder(use_unclamped).
BusConnectEncoder(index, use_unclamped) ==
    /\ audio_budget.connects > 0
    /\ audio_budget' = [audio_budget EXCEPT !.connects = @ - 1]
    /\ IF GetMix(index) = None
       THEN UNCHANGED <<mixes, audio_channels>>
       ELSE /\ BusLockFree(index + 1)
            /\ audio_channels' = Append(audio_channels, [buf |-> <<>>, rx_alive |-> TRUE])
            /\ mixes' = [mixes EXCEPT ![index + 1].encoders =
                            Append(@, [tx |-> Len(audio_channels) + 1,
                                       use_unclamped |-> use_unclamped])]
    /\ process_from' = None
    /\ UNCHANGED <<videoVars, poolVars, sceneVars, kernelVars, mix, mixed, mix_pc, frames_processed,
                   bus_pc>>

\* A client calls get_mix(index) and, on the bus it gets, under its write
\* lock, mix_sources(sources).
BusMixSources(index, sources) ==
    /\ audio_budget.mixes > 0
    /\ Len(sources) <= audio_budget.sources
    /\ audio_budget' = [audio_budget EXCEPT !.mixes = @ - 1]
    /\ IF GetMix(index) = None
       THEN UNCHANGED mixes
       ELSE /\ BusLockFree(index + 1)
            /\ mixes' = [mixes EXCEPT ![index + 1] =
                            Summed(@, AudioDataClear(@.buffer_unclamped).data, sources)]
    /\ process_from' = None
    /\ UNCHANGED <<videoVars, poolVars, sceneVars, kernelVars, mix, mixed, mix_pc, audio_channels,
                   frames_processed, bus_pc>>

\* process_all_mixes is called: par_iter().for_each hands every bus to the
\* thread pool.
ProcessAllStart ==
    /\ \A k \in DOMAIN bus_pc : bus_pc[k] = "idle"
    /\ audio_budget.processes > 0
    /\ audio_budget' = [audio_budget EXCEPT !.processes = @ - 1]
    /\ bus_pc' = [k \in DOMAIN bus_pc |-> "todo"]
    /\ process_from' = [mixes |-> mixes, channels |-> audio_channels]
    /\ UNCHANGED <<videoVars, poolVars, sceneVars, kernelVars, mix, mixed, mix_pc, audio_channels,
                   mixes, frames_processed>>

\* has_inputs(): the bus has a connection.
HasInputs(m) == m.encoders # <<>>

\* A closure that sends what the first bus holds, whichever bus it is on.
BusProcess_FirstBusData(k) ==
    /\ bus_pc[k] = "todo"
    /\ IF mixes[k].encoders # <<>>
       THEN /\ audio_channels' =
                   Dispatch([mixes[1] EXCEPT !.encoders = mixes[k].encoders], audio_channels)
            /\ bus_pc' = [bus_pc EXCEPT ![k] = "retain"]
       ELSE /\ bus_pc' = [bus_pc EXCEPT ![k] = "done"]
            /\ UNCHANGED audio_channels
    /\ UNCHANGED <<videoVars, poolVars, sceneVars, kernelVars, mix, mixed, mix_pc, audio_budget, mixes,
                   frames_processed, process_from>>

\* The closure of process_all_mixes on bus k: take the write lock; if the bus
\* has inputs run the send loop of process(), otherwise release the lock.
BusProcess(k) ==
    /\ bus_pc[k] = "todo"
    /\ IF HasInputs(mixes[k])
       THEN /\ audio_channels' = Dispatch(mixes[k], audio_channels)
            /\ bus_pc' = [bus_pc EXCEPT ![k] = "retain"]
       ELSE /\ bus_pc' = [bus_pc EXCEPT ![k] = "done"]
            /\ UNCHANGED audio_channels
    /\ UNCHANGED <<videoVars, poolVars, sceneVars, kernelVars, mix, mixed, mix_pc, audio_budget, mixes,
                   frames_processed, process_from>>

\* The closure on bus k: the retain of process(), and the write lock released.
BusRetain(k) ==
    /\ bus_pc[k] = "retain"
    /\ mixes' = [mixes EXCEPT ![k].encoders = RetainNotFull(@, audio_channels)]
    /\ bus_pc' = [bus_pc EXCEPT ![k] = "done"]
    /\ UNCHANGED <<videoVars, poolVars, sceneVars, kernelVars, mix, mixed, mix_pc, audio_budget,
                   audio_channels, frames_processed, process_from>>

\* A process_all_mixes that counts the buses it found active.
ProcessAllReturn_CountsBuses ==
    /\ bus_pc # <<>>
    /\ \A k \in DOMAIN bus_pc : bus_pc[k] = "done"
    /\ frames_processed' =
           frames_processed + Cardinality({k \in DOMAIN mixes : mixes[k].encoders # <<>>})
    /\ bus_pc' = [k \in DOMAIN bus_pc |-> "idle"]
    /\ process_from' = None
    /\ UNCHANGED <<videoVars, poolVars, sceneVars, kernelVars, mix, mixed, mix_pc, audio_budget,
                   audio_channels, mixes>>

\* Every closure has returned: frames_processed.fetch_add(1) and return.
ProcessAllReturn ==
    /\ bus_pc # <<>>
    /\ \A k \in DOMAIN bus_pc : bus_pc[k] = "done"
    /\ frames_processed' = frames_processed + 1
    /\ bus_pc' = [k \in DOMAIN bus_pc |-> "idle"]
    /\ process_from' = None
    /\ UNCHANGED <<videoVars, poolVars, sceneVars, kernelVars, mix, mixed, mix_pc, audio_budget,
                   audio_channels, mixes>>

\* stats(): the buses that have inputs, and their connections, counted.
RECURSIVE SumInputs(_)
SumInputs(ms) ==
    IF ms = <<>> THEN 0
    ELSE (IF HasInputs(Head(ms)) THEN Len(Head(ms).encoders) ELSE 0) + SumInputs(Tail(ms))
Stats ==
    [frames_processed |-> frames_processed,
     active_mixes |-> Cardinality({k \in DOMAIN mixes : HasInputs(mixes[k])}),
     total_inputs |-> SumInputs(mixes)]

(***************************************************************************)
(* Clamping kernels (clamping.rs)                                          *)
(***************************************************************************)
\* The f32 lanes of one __m256.
LANES == 8

\* _mm256_cmp_ps(a, b, _CMP_EQ_OQ) on one lane: ordered equal, false when
\* either is NaN; the lane of the mask is all ones or all zeros.
CmpEqOq(a, b) == a # NaN /\ b # NaN /\ a = b

\* _mm256_and_ps(val, mask) on one lane, and an and that keeps every lane.
AndPs_Keep(val, mask) == val
AndPs(val, mask) == IF mask THEN val ELSE 0

\* _mm256_min_ps(a, b) and _mm256_max_ps(a, b) on one lane: the second
\* operand when either is NaN.
MinPs(a, b) == IF a # NaN /\ b # NaN /\ a < b THEN a ELSE b
MaxPs(a, b) == IF a # NaN /\ b # NaN /\ a > b THEN a ELSE b

\* One lane of the 8-lane body of clamp_audio_avx.
ClampLane(val) == MaxPs(MinPs(AndPs(val, CmpEqOq(val, val)), One), -One)

\* clamp_audio_avx: the body runs while i + 8 <= len, the scalar tail takes
\* the samples left.
ClampAudioAvx(buffer) ==
    LET body == LANES * (Len(buffer) \div LANES)
    IN  [i \in DOMAIN buffer |->
            IF i <= body THEN ClampLane(buffer[i])
            ELSE IF buffer[i] = NaN THEN 0
            ELSE IF buffer[i] > One THEN One
            ELSE IF buffer[i] < -One THEN -One
            ELSE buffer[i]]

\* clamp_audio_scalar.
ClampAudioScalar(buffer) == [i \in DOMAIN buffer |-> ClampSample(buffer[i])]

\* The kernels a client can call, and what each makes of a buffer:
\* clamp_audio dispatches on the CPU feature.
Kernels == {"clamp_audio", "clamp_audio_avx", "clamp_audio_scalar"}
KernelResult(kernel, buffer) ==
    IF kernel = "clamp_audio_avx" \/ (kernel = "clamp_audio" /\ has_avx)
    THEN ClampAudioAvx(buffer)
    ELSE ClampAudioScalar(buffer)

\* A call of one of the kernels on channel c; clamp_audio_avx needs the CPU
\* feature.
ClampCall(kernel, c) ==
    /\ clamp_budget > 0
    /\ kernel = "clamp_audio_avx" => has_avx
    /\ clamp_budget' = clamp_budget - 1
    /\ clamp_buffers' = [clamp_buffers EXCEPT ![c] = KernelResult(kernel, @)]
    /\ clamp_last' = [kernel |-> kernel, channels |-> {c}, before |-> clamp_buffers]
    /\ clamped_channels' = clamped_channels \cup {c}
    /\ UNCHANGED <<videoVars, poolVars, sceneVars, audioVars, has_avx, convVars, allocVars, cropVars,
                   cloneVars>>

\* clamp_audio_channels(buffers): clamp_audio on every channel, in parallel.
ClampChannelsCall ==
    /\ clamp_budget > 0
    /\ clamp_budget' = clamp_budget - 1
    /\ clamp_buffers' =
           [c \in DOMAIN clamp_buffers |-> KernelResult("clamp_audio", clamp_buffers[c])]
    /\ clamp_last' = [kernel |-> "clamp_audio_channels", channels |-> DOMAIN clamp_buffers,
                      before |-> clamp_buffers]
    /\ clamped_channels' = DOMAIN clamp_buffers
    /\ UNCHANGED <<videoVars, poolVars, sceneVars, audioVars, has_avx, convVars, allocVars, cropVars,
                   cloneVars>>

(***************************************************************************)
(* UYVY to NV12 conversion (format_conversion.rs)                          *)
(***************************************************************************)
\* A 256-bit register is a function from the byte positions 0..31 to bytes.
\* _mm256_loadu_si256 at byte offset off of a buffer.
LoaduSi256(buf, off) == [i \in 0..31 |-> buf[off + i + 1]]

\* _mm256_setr_epi8: the 32 arguments, in order.
SetrEpi8(args) == [i \in 0..31 |-> args[i + 1]]

\* _mm256_shuffle_epi8: in each 128-bit lane, byte i is zero when the mask
\* byte has its top bit set, else the byte of the same lane of a that the low
\* four bits of the mask byte select.
ShuffleEpi8(a, mask) ==
    [i \in 0..31 |-> IF mask[i] < 0 THEN 0 ELSE a[16 * (i \div 16) + (mask[i] % 16)]]

\* _mm256_permute4x64_epi64: 64-bit element q of the result is the element of
\* a that bits 2q+1..2q of imm select.
Permute4x64Epi64(a, imm) ==
    [i \in 0..31 |-> a[8 * ((imm \div (4 ^ (i \div 8))) % 4) + (i % 8)]]

\* _mm256_avg_epu8: (a + b + 1) >> 1 per byte, in nine bits.
AvgEpu8(a, b) == [i \in 0..31 |-> (a[i] + b[i] + 1) \div 2]

\* _mm256_srli_si256: each 128-bit lane shifted right by n bytes, zeros
\* shifted in.
SrliSi256(a, n) == [i \in 0..31 |-> IF (i % 16) + n < 16 THEN a[i + n] ELSE 0]

\* _mm256_unpacklo_epi8: in each 128-bit lane, the low eight bytes of a and
\* of b interleaved.
UnpackloEpi8(a, b) ==
    [i \in 0..31 |-> IF i % 2 = 0 THEN a[16 * (i \div 16) + ((i % 16) \div 2)]
                                  ELSE b[16 * (i \div 16) + ((i % 16) \div 2)]]

\* A store of the kernels: len bytes, bytes[0] .. bytes[len - 1], written
\* from byte offset off of output_y ("y") or output_uv ("uv") on, as the
\* n-th store of the call.
Store(n, plane, off, len, bytes) ==
    [n |-> n, plane |-> plane, off |-> off, len |-> len, bytes |-> bytes]

\* _mm_storeu_si128(buf + off, _mm256_castsi256_si128(v)): the low 16 bytes
\* of v.
StoreuSi128(n, plane, off, v) == Store(n, plane, off, 16, v)

\* buf[off] = byte.
StoreByte(n, plane, off, byte) == Store(n, plane, off, 1, [i \in {0} |-> byte])

\* A buffer after the stores of a call: each byte is that of the last store
\* that covers it, and as before if none does.
AfterStores(buf, plane, stores) ==
    LET mine == {s \in stores : s.plane = plane}
    IN  [j \in DOMAIN buf |->
            LET hits == {s \in mine : s.off <= j - 1 /\ j - 1 < s.off + s.len}
            IN  IF hits = {} THEN buf[j]
                ELSE LET last == CHOOSE s \in hits : \A h \in hits : h.n <= s.n
                     IN  last.bytes[j - 1 - last.off]]

\* for y in (0..height).step_by(2) { for x in (0..width).step_by(step): the
\* number of iterations, and y and x of iteration k (from 0).
LoopCols(width, step) == (width + step - 1) \div step
LoopCount(width, height, step) == ((height + 1) \div 2) * LoopCols(width, step)
LoopY(k, width, step) == 2 * (k \div LoopCols(width, step))
LoopX(k, width, step) == step * (k % LoopCols(width, step))

y_shuffle ==
    SetrEpi8(<<1, 3, 5, 7, 9, 11, 13, 15, -1, -1, -1, -1, -1, -1, -1, -1,
               1, 3, 5, 7, 9, 11, 13, 15, -1, -1, -1, -1, -1, -1, -1, -1>>)
u_shuffle ==
    SetrEpi8(<<0, 4, 8, 12, -1, -1, -1, -1, -1, -1, -1, -1, -1, -1, -1, -1,
               0, 4, 8, 12, -1, -1, -1, -1, -1, -1, -1, -1, -1, -1, -1, -1>>)
v_shuffle ==
    SetrEpi8(<<2, 6, 10, 14, -1, -1, -1, -1, -1, -1, -1, -1, -1, -1, -1, -1,
               2, 6, 10, 14, -1, -1, -1, -1, -1, -1, -1, -1, -1, -1, -1, -1>>)

\* Iteration k of compress_uyvy_to_nv12_avx2: 16 pixels of rows y and y + 1,
\* from column x on; three stores of 16 bytes.
Avx2Block(input, k, y, x, in_linesize, out_y_linesize, out_uv_linesize) ==
    LET y0_offset == y * in_linesize
        y1_offset == (y + 1) * in_linesize
        out_y0_offset == y * out_y_linesize
        out_y1_offset == (y + 1) * out_y_linesize
        out_uv_offset == (y \div 2) * out_uv_linesize
        x_in_bytes == x * 2
        x_out_bytes == x
        line1 == LoaduSi256(input, y0_offset + x_in_bytes)
        line2 == LoaduSi256(input, y1_offset + x_in_bytes)
        y1_shuffled == ShuffleEpi8(line1, y_shuffle)
        y2_shuffled == ShuffleEpi8(line2, y_shuffle)
        y1_final == Permute4x64Epi64(y1_shuffled, 8)
        y2_final == Permute4x64Epi64(y2_shuffled, 8)
        u1 == ShuffleEpi8(line1, u_shuffle)
        u2 == ShuffleEpi8(line2, u_shuffle)
        v1 == ShuffleEpi8(line1, v_shuffle)
        v2 == ShuffleEpi8(line2, v_shuffle)
        u_vert == AvgEpu8(u1, u2)
        v_vert == AvgEpu8(v1, v2)
        u_shifted == SrliSi256(u_vert, 1)
        v_shifted == SrliSi256(v_vert, 1)
        u_horiz == AvgEpu8(u_vert, u_shifted)
        v_horiz == AvgEpu8(v_vert, v_shifted)
        uv_low == UnpackloEpi8(u_horiz, v_horiz)
        uv_permuted == Permute4x64Epi64(uv_low, 8)
    IN  {StoreuSi128(3 * k, "y", out_y0_offset + x_out_bytes, y1_final),
         StoreuSi128(3 * k + 1, "y", out_y1_offset + x_out_bytes, y2_final),
         StoreuSi128(3 * k + 2, "uv", out_uv_offset + (x \div 2), uv_permuted)}

\* compress_uyvy_to_nv12_avx2: the stores of its iterations, in order, on
\* out, the record of output_y and output_uv.
CompressUyvyToNv12Avx2(input, out, width, height, in_linesize, out_y_linesize, out_uv_linesize) ==
    LET stores == UNION {Avx2Block(input, k, LoopY(k, width, 16), LoopX(k, width, 16),
                                   in_linesize, out_y_linesize, out_uv_linesize) :
                             k \in 0..(LoopCount(width, height, 16) - 1)}
    IN  [y |-> AfterStores(out.y, "y", stores), uv |-> AfterStores(out.uv, "uv", stores)]

\* ((a as u16 + b as u16) / 2) as u8
ScalarAvg(a, b) == (((a + b) % 65536) \div 2) % 256

\* Iteration k of compress_uyvy_to_nv12_scalar: two pixels of rows y and
\* y + 1, from column x on; six stores of one byte.
ScalarBlock(input, k, y, x, in_linesize, out_y_linesize, out_uv_linesize) ==
    LET y0_offset == y * in_linesize
        y1_offset == (y + 1) * in_linesize
        out_y0_offset == y * out_y_linesize
        out_y1_offset == (y + 1) * out_y_linesize
        out_uv_offset == (y \div 2) * out_uv_linesize
        in0 == y0_offset + x * 2
        in1 == y1_offset + x * 2
        u0 == input[in0 + 1]
        y00 == input[in0 + 2]
        v0 == input[in0 + 3]
        y01 == input[in0 + 4]
        u1 == input[in1 + 1]
        y10 == input[in1 + 2]
        v1 == input[in1 + 3]
        y11 == input[in1 + 4]
        u_avg == ScalarAvg(u0, u1)
        v_avg == ScalarAvg(v0, v1)
    IN  {StoreByte(6 * k, "y", out_y0_offset + x, y00),
         StoreByte(6 * k + 1, "y", out_y0_offset + x + 1, y01),
         StoreByte(6 * k + 2, "y", out_y1_offset + x, y10),
         StoreByte(6 * k + 3, "y", out_y1_offset + x + 1, y11),
         StoreByte(6 * k + 4, "uv", out_uv_offset + x, u_avg),
         StoreByte(6 * k + 5, "uv", out_uv_offset + x + 1, v_avg)}

\* compress_uyvy_to_nv12_scalar: the stores of its iterations, in order, on
\* out.
CompressUyvyToNv12Scalar(input, out, width, height, in_linesize, out_y_linesize, out_uv_linesize) ==
    LET stores == UNION {ScalarBlock(input, k, LoopY(k, width, 2), LoopX(k, width, 2),
                                     in_linesize, out_y_linesize, out_uv_linesize) :
                             k \in 0..(LoopCount(width, height, 2) - 1)}
    IN  [y |-> AfterStores(out.y, "y", stores), uv |-> AfterStores(out.uv, "uv", stores)]

\* compress_uyvy_to_nv12: the AVX2 function when the CPU has AVX2 and the
\* width is a multiple of 16, the scalar one otherwise.
CompressUyvyToNv12(input, out, width, height, in_linesize, out_y_linesize, out_uv_linesize) ==
    IF has_avx2 /\ width % 16 = 0
    THEN CompressUyvyToNv12Avx2(input, out, width, height,
                                in_linesize, out_y_linesize, out_uv_linesize)
    ELSE CompressUyvyToNv12Scalar(input, out, width, height,
                                  in_linesize, out_y_linesize, out_uv_linesize)

Converters ==
    {"compress_uyvy_to_nv12", "compress_uyvy_to_nv12_avx2", "compress_uyvy_to_nv12_scalar"}

\* A call of one of the three functions on the image and the output buffers.
\* compress_uyvy_to_nv12_avx2 needs the CPU feature and a width that is a
\* multiple of 16.
ConvertCall(converter) ==
    /\ conv_shape # None
    /\ converter = "compress_uyvy_to_nv12_avx2" => has_avx2 /\ conv_shape.width % 16 = 0
    /\ conv_out' =
           LET s == conv_shape
           IN  CASE converter = "compress_uyvy_to_nv12" ->
                        CompressUyvyToNv12(conv_input, conv_out, s.width, s.height,
                            s.in_linesize, s.out_y_linesize, s.out_uv_linesize)
                 [] converter = "compress_uyvy_to_nv12_avx2" ->
                        CompressUyvyToNv12Avx2(conv_input, conv_out, s.width, s.height,
                            s.in_linesize, s.out_y_linesize, s.out_uv_linesize)
                 [] converter = "compress_uyvy_to_nv12_scalar" ->
                        CompressUyvyToNv12Scalar(conv_input, conv_out, s.width, s.height,
                            s.in_linesize, s.out_y_linesize, s.out_uv_linesize)
    /\ conv_last' = [converter |-> converter, before |-> conv_out]
    /\ UNCHANGED <<videoVars, poolVars, sceneVars, audioVars>>
    /\ UNCHANGED <<clamp_buffers, has_avx, clamp_last, clamped_channels, clamp_budget>>
    /\ UNCHANGED <<conv_input, conv_shape, has_avx2, allocVars, cropVars, cloneVars>>

\* No conversion in use.
ConvIdle ==
    /\ conv_input = <<>>
    /\ conv_shape = None
    /\ conv_out = None
    /\ has_avx2 = FALSE
    /\ conv_last = None

(***************************************************************************)
(* FramePool::allocate_frame (frame_pool.rs)                               *)
(***************************************************************************)
\* std::ptr::null_mut()
NullPtr == 0

\* VideoFormat::bytes_per_pixel
BytesPerPixel(format) ==
    CASE format \in {"RGBA", "BGRA", "BGRX", "AYUV"} -> 4
      [] format = "BGR3" -> 3
      [] format \in {"YVYU", "YUY2", "UYVY"} -> 2
      [] format = "Y800" -> 1
      [] OTHER -> 0

\* VideoFormat::calculate_size
CalculateSize(format, width, height) ==
    CASE format \in {"I420", "NV12"} ->
             width * height + ((width \div 2) * (height \div 2)) * 2
      [] format = "I444" -> width * height * 3
      [] format \in {"RGBA", "BGRA"} -> width * height * 4
      [] OTHER -> width * height * BytesPerPixel(format)

\* total_size / size of the allocation of allocate_frame
AllocSize(format, width, height) ==
    CASE format = "I420" -> width * height + ((width \div 2) * (height \div 2)) * 2
      [] format = "NV12" -> width * height + width * (height \div 2)
      [] format \in {"RGBA", "BGRA", "BGRX"} -> width * height * 4
      [] OTHER -> CalculateSize(format, width, height)

\* allocate_frame, ptr being what alloc_zeroed returned: data[1] and data[2]
\* are ptr plus the sizes of the planes before them.
AllocateFrame(format, width, height, ptr) ==
    CASE format = "I420" ->
             LET y_size == width * height
                 y_linesize == width
                 uv_width == width \div 2
                 uv_height == height \div 2
                 uv_size == uv_width * uv_height
                 uv_linesize == uv_width
             IN  [data |-> <<ptr, ptr + y_size, ptr + y_size + uv_size, NullPtr>>,
                  linesize |-> <<y_linesize, uv_linesize, uv_linesize, 0>>,
                  in_use |-> FALSE]
      [] format = "NV12" ->
             LET y_size == width * height
                 y_linesize == width
                 uv_width == width
                 uv_linesize == uv_width
             IN  [data |-> <<ptr, ptr + y_size, NullPtr, NullPtr>>,
                  linesize |-> <<y_linesize, uv_linesize, 0, 0>>,
                  in_use |-> FALSE]
      [] format \in {"RGBA", "BGRA", "BGRX"} ->
             [data |-> <<ptr, NullPtr, NullPtr, NullPtr>>,
              linesize |-> <<width * 4, 0, 0, 0>>,
              in_use |-> FALSE]
      [] OTHER ->
             [data |-> <<ptr, NullPtr, NullPtr, NullPtr>>,
              linesize |-> <<width * BytesPerPixel(format), 0, 0, 0>>,
              in_use |-> FALSE]

\* alloc_zeroed(Layout { size, align: FRAME_ALIGNMENT }): the addresses it may
\* return for the frames of a pool, one after the other: multiples of
\* FRAME_ALIGNMENT, each block behind the one before, with no gap or one of
\* FRAME_ALIGNMENT bytes.
AlignUp(n) == ((n + FRAME_ALIGNMENT - 1) \div FRAME_ALIGNMENT) * FRAME_ALIGNMENT
RECURSIVE BlockPtrs(_, _, _)
BlockPtrs(first, size, gaps) ==
    IF gaps = <<>> THEN <<>>
    ELSE <<first + gaps[1] * FRAME_ALIGNMENT>>
         \o BlockPtrs(first + gaps[1] * FRAME_ALIGNMENT + AlignUp(size), size, Tail(gaps))

\* FramePool::new(format, width, height, capacity), ptrs being what the
\* capacity calls of alloc_zeroed returned.
FramePoolNew(format, width, height, ptrs) ==
    [format |-> format, width |-> width, height |-> height,
     frames |-> [i \in DOMAIN ptrs |-> AllocateFrame(format, width, height, ptrs[i])]]

\* acquire: the first frame not in use is marked and returned as a
\* VideoFrame; None when all are in use.
AllocAcquire ==
    /\ alloc_pool # None
    /\ LET free == {i \in DOMAIN alloc_pool.frames : ~alloc_pool.frames[i].in_use}
       IN  IF free = {}
           THEN /\ alloc_ret' = None
                /\ UNCHANGED alloc_pool
           ELSE LET i == CHOOSE f \in free : \A g \in free : f <= g
                IN  /\ alloc_pool' = [alloc_pool EXCEPT !.frames[i].in_use = TRUE]
                    /\ alloc_ret' = [data |-> alloc_pool.frames[i].data,
                                     linesize |-> alloc_pool.frames[i].linesize,
                                     width |-> alloc_pool.width,
                                     height |-> alloc_pool.height,
                                     format |-> alloc_pool.format,
                                     timestamp |-> 0]
    /\ UNCHANGED <<videoVars, poolVars, sceneVars, audioVars>>
    /\ UNCHANGED <<clamp_buffers, has_avx, clamp_last, clamped_channels, clamp_budget>>
    /\ UNCHANGED <<convVars, cropVars, cloneVars>>

\* release(frame) of the frame of slot i: the first frame whose data[0] is
\* the frame's is marked not in use.
AllocRelease(i) ==
    /\ alloc_pool # None
    /\ alloc_pool.frames[i].in_use
    /\ LET same == {j \in DOMAIN alloc_pool.frames :
                       alloc_pool.frames[j].data[1] = alloc_pool.frames[i].data[1]}
           j == CHOOSE f \in same : \A g \in same : f <= g
       IN  alloc_pool' = [alloc_pool EXCEPT !.frames[j].in_use = FALSE]
    /\ UNCHANGED alloc_ret
    /\ UNCHANGED <<videoVars, poolVars, sceneVars, audioVars>>
    /\ UNCHANGED <<clamp_buffers, has_avx, clamp_last, clamped_channels, clamp_budget>>
    /\ UNCHANGED <<convVars, cropVars, cloneVars>>

\* No pool with planes in use.
AllocIdle ==
    /\ alloc_pool = None
    /\ alloc_ret = None

\* No clamping kernel in use.
ClampIdle ==
    /\ clamp_buffers = <<>>
    /\ has_avx = FALSE
    /\ clamp_last = None
    /\ clamped_channels = {}
    /\ clamp_budget = 0

\* No crop calculator called.
CropIdle ==
    /\ crop_in = None
    /\ crop_out = None

\* No clone of a Scene.
CloneIdle == clone_id_counter = 0

\* No kernel in use.
KernelIdle == ClampIdle /\ ConvIdle /\ AllocIdle /\ CropIdle /\ CloneIdle

\* No AudioMixer in use.
MixerIdle ==
    /\ mixes = <<>>
    /\ frames_processed = 0
    /\ bus_pc = <<>>
    /\ process_from = None

\* No AudioMix and no AudioMixer in use.
AudioIdle ==
    /\ mix = None
    /\ mixed = None
    /\ audio_budget = None
    /\ audio_channels = <<>>
    /\ mix_pc = "idle"
    /\ MixerIdle

\* No Scene in use.
SceneIdle ==
    /\ items = <<>>
    /\ id_counter = 1
    /\ adders = <<>>
    /\ returned = <<>>
    /\ scene_ret = None
    /\ render_count = 0
    /\ renderers = <<>>
    /\ scene_budget = None

\* The video output with its graphics thread, worker and encoders.
Init == VideoInit /\ PoolIdle /\ SceneIdle /\ AudioIdle /\ KernelIdle

Next ==
    \/ LockFrame
    \/ UnlockFrame(locked, Timestamp(submitted + 1))
    \/ WorkerCheck
    \/ WorkerPop
    \/ WorkerFanout
    \/ \E id \in EncoderIds, d \in 0..MaxDivisor : ConnectEncoder(id, d)
    \/ \E id \in EncoderIds : DisconnectEncoder(id)
    \/ \E c \in DOMAIN channels : EncoderRecv(c)
    \/ \E c \in DOMAIN channels : EncoderDrop(c)
    \/ Shutdown
    \/ ShutdownJoined

Spec == Init /\ [][Next]_vars

\* A VideoOutput whose owner calls shutdown() up to twice and drops it, with
\* an encoder that may connect, disconnect or drop its receiver, and frames
\* in the queue.
InitShutdown ==
    /\ PoolIdle /\ SceneIdle /\ AudioIdle /\ KernelIdle
    /\ frames = NewPool(MAX_CACHE_SIZE + POOL_EXTRA_FRAMES)
    /\ locked = None
    /\ frame_queue = <<>>
    /\ encoders = <<>>
    /\ channels = <<>>
    /\ worker_pc = "check"
    /\ cached = None
    /\ total_frames = 0
    /\ skipped_frames = 0
    /\ running = TRUE
    /\ thread_handle = "some"
    /\ ret = None
    /\ pushed = <<>>
    /\ submitted = 0
    /\ budget = [locks |-> MaxShutdownLocks, connects |-> 1, churn |-> TRUE, shutdowns |-> 2]

NextShutdown ==
    \/ LockFrame
    \/ UnlockFrame(locked, Timestamp(submitted + 1))
    \/ WorkerCheck
    \/ WorkerPop
    \/ WorkerFanout
    \/ \E id \in EncoderIds, d \in 0..MaxDivisor : ConnectEncoder(id, d)
    \/ \E id \in EncoderIds : DisconnectEncoder(id)
    \/ \E c \in DOMAIN channels : EncoderRecv(c)
    \/ \E c \in DOMAIN channels : EncoderDrop(c)
    \/ Shutdown
    \/ ShutdownJoined
    \/ DropFields

\* The distribution thread is an OS thread of its own: it is scheduled as
\* long as it can take a step (try_send never blocks, and the write lock on
\* the encoders is held by others only for the length of one call), and
\* join returns once the thread has exited.
FairShutdown ==
    /\ WF_vars(WorkerCheck)
    /\ WF_vars(WorkerPop)
    /\ WF_vars(WorkerFanout)
    /\ WF_vars(ShutdownJoined)

SpecShutdown == InitShutdown /\ [][NextShutdown]_vars /\ FairShutdown

\* No VideoOutput in use.
VideoIdle ==
    /\ frames = <<>>
    /\ locked = None
    /\ frame_queue = <<>>
    /\ encoders = <<>>
    /\ channels = <<>>
    /\ worker_pc = "exited"
    /\ cached = None
    /\ total_frames = 0
    /\ skipped_frames = 0
    /\ running = FALSE
    /\ thread_handle = "none"
    /\ ret = None
    /\ pushed = <<>>
    /\ submitted = 0
    /\ budget = None

\* A FramePool on its own, acquired from and released to by several threads.
InitPool == VideoIdle /\ PoolInit /\ SceneIdle /\ AudioIdle /\ KernelIdle

NextPool ==
    \/ \E c \in Clients : AcquireLock(c)
    \/ \E c \in Clients : AcquireScan(c)
    \/ \E c \in Clients : AcquireMark(c)
    \/ \E c \in Clients : \E frame \in clients[c].holds \cup {ForeignFrame} :
           ReleaseLock(c, frame)
    \/ \E c \in Clients : ReleaseScan(c)

SpecPool == InitPool /\ [][NextPool]_vars

\* The order lists passed to reorder_items: (id, desired index) pairs. The
\* code never reads the desired index; the k-th pair asks for index k - 1.
OrderLists ==
    {[k \in 1..Len(ids) |-> <<ids[k], k - 1>>] :
        ids \in UNION {[1..n -> CallIds] : n \in 0..MaxOrderLen}}

\* A Scene on its own, mutated by several threads.
InitScene ==
    /\ VideoIdle /\ PoolIdle /\ SceneInit /\ AudioIdle /\ KernelIdle
    /\ scene_budget = [adds |-> MaxAdds, threads |-> MaxAdders, renders |-> 0]

NextScene ==
    \/ \E t \in Adders, s \in Sources : AddItemFetch(t, SceneItemNew(0, s))
    \/ \E t \in Adders : AddItemPush(t)
    \/ \E id \in CallIds : RemoveItem(id)
    \/ \E id \in CallIds, new_index \in 0..MaxAdds : MoveItem(id, new_index)
    \/ \E order \in OrderLists : ReorderItems(order)
    \/ \E id \in CallIds, mutator \in Mutators : UpdateItem(id, mutator)

SpecScene == InitScene /\ [][NextScene]_vars

\* A Scene one thread adds items to, removes them from, and moves and
\* reorders the items of. Ids and indexes passed: those there can be, and one
\* more.
OrderIds == 0..MaxItems
OrderListsOf(ids) ==
    {[k \in 1..Len(order) |-> <<order[k], k - 1>>] :
        order \in UNION {[1..n -> ids] : n \in 0..MaxOrderPairs}}

InitOrder ==
    /\ VideoIdle /\ PoolIdle /\ SceneInit /\ AudioIdle /\ KernelIdle
    /\ scene_budget = [adds |-> MaxItems, threads |-> 1, renders |-> 0]

NextOrder ==
    \/ AddItemFetch(1, SceneItemNew(0, 100))
    \/ AddItemPush(1)
    \/ \E id \in OrderIds : RemoveItem(id)
    \/ \E id \in OrderIds, new_index \in 0..MaxItems : MoveItem(id, new_index)
    \/ \E order \in OrderListsOf(OrderIds) : ReorderItems(order)

SpecOrder == InitOrder /\ [][NextOrder]_vars

\* Source sizes, and the source_dimensions slices passed to update_transforms:
\* (source id, width, height) entries, at most one for each source there is.
Sizes == {<<1920, 1080>>, <<1280, 720>>}
DimEntries == {<<s, z[1], z[2]>> : s \in Sources, z \in Sizes}
DimLists == UNION {[1..n -> DimEntries] : n \in 0..Cardinality(Sources)}

\* The closures passed to update_item by a client that moves and hides items.
TransformMutators == {"nothing", "move", "hide"}

\* A Scene of one thread that adds items, updates them and updates the
\* transforms.
InitTransforms ==
    /\ VideoIdle /\ PoolIdle /\ SceneInit /\ AudioIdle /\ KernelIdle
    /\ scene_budget = [adds |-> MaxTransformItems, threads |-> 1, renders |-> 0]

NextTransforms ==
    \/ \E s \in Sources : AddItemFetch(1, SceneItemNew(0, s))
    \/ AddItemPush(1)
    \/ \E id \in CallIds, mutator \in TransformMutators : UpdateItem(id, mutator)
    \/ \E source_dimensions \in DimLists : UpdateTransforms(source_dimensions)

SpecTransforms == InitTransforms /\ [][NextTransforms]_vars

\* A Scene one thread adds items to, hides, shows, moves and removes them,
\* while other threads render it.
InitRender ==
    /\ VideoIdle /\ PoolIdle /\ SceneInit /\ AudioIdle /\ KernelIdle
    /\ scene_budget = [adds |-> MaxAdds, threads |-> 1, renders |-> MaxRenders]

NextRender ==
    \/ \E s \in Sources : AddItemFetch(1, SceneItemNew(0, s))
    \/ AddItemPush(1)
    \/ \E id \in CallIds : RemoveItem(id)
    \/ \E id \in CallIds, new_index \in 0..MaxAdds : MoveItem(id, new_index)
    \/ \E id \in CallIds, mutator \in Mutators : UpdateItem(id, mutator)
    \/ \E r \in Renderers : RenderLock(r)
    \/ \E r \in Renderers : RenderVisit(r)
    \/ \E r \in Renderers : RenderReturn(r)

SpecRender == InitRender /\ [][NextRender]_vars

\* The channel and frame counts an AudioMix is built with and its sources come
\* with, and what a source is filled with: 0.3, 0.5 or 1.5 in every sample, as
\* the tests fill theirs, or a different sample in each place (0.5 and -1.5 in
\* the first channel, NaN and 0.3 in the second).
ChannelCounts == {1, 2}
FrameCounts == {1, 2}
Fills ==
    {<<<<3, 3>>, <<3, 3>>>>, <<<<5, 5>>, <<5, 5>>>>, <<<<15, 15>>, <<15, 15>>>>,
     <<<<5, -15>>, <<NaN, 3>>>>}

\* The sources passed to mix_sources: AudioData::new(channels, frames), filled.
AudioSources ==
    {[data |-> [c \in 1..n |-> [f \in 1..fr |-> fill[c][f]]], frames |-> fr] :
        n \in ChannelCounts, fr \in FrameCounts, fill \in Fills}
SourceLists(n) == UNION {[1..k -> AudioSources] : k \in 0..n}

\* What the client of an AudioMix does: one mix_sources call of up to
\* MaxMixSources sources, or MaxMixCalls calls of at most one source each.
MixScenarios ==
    {[mixes |-> 1, sources |-> MaxMixSources, connects |-> 0, processes |-> 0, drops |-> 0],
     [mixes |-> MaxMixCalls, sources |-> 1, connects |-> 0, processes |-> 0, drops |-> 0]}

\* An AudioMix on its own, mixed by the thread that owns it.
InitMix ==
    /\ VideoIdle /\ PoolIdle /\ SceneIdle /\ KernelIdle
    /\ \E frames_per_buffer \in FrameCounts, channels_ \in ChannelCounts :
           mix = AudioMixNew(frames_per_buffer, channels_)
    /\ mixed = None
    /\ audio_budget \in MixScenarios
    /\ audio_channels = <<>>
    /\ mix_pc = "idle"
    /\ MixerIdle

NextMix == \E sources \in SourceLists(audio_budget.sources) : MixSources(sources)

SpecMix == InitMix /\ [][NextMix]_vars

\* The sources of an AudioMix that is processed: one that leaves the two
\* accumulators different (1.5), and one that leaves them equal (0.5).
ProcessSources ==
    {<<[data |-> <<<<fill>>>>, frames |-> 1]>> : fill \in {15, 5}}

\* An AudioMix of one channel and one frame whose owner mixes once, connects
\* encoders and processes, while the encoders receive or drop their Receiver.
InitProcess ==
    /\ VideoIdle /\ PoolIdle /\ SceneIdle /\ KernelIdle
    /\ mix = AudioMixNew(1, 1)
    /\ mixed = None
    /\ audio_budget = [mixes |-> 1, sources |-> 1, connects |-> MaxMixConnects,
                       processes |-> MaxProcessCalls, drops |-> 1]
    /\ audio_channels = <<>>
    /\ mix_pc = "idle"
    /\ MixerIdle

NextProcess ==
    \/ \E sources \in ProcessSources : MixSources(sources)
    \/ \E use_unclamped \in BOOLEAN : MixConnectEncoder(use_unclamped)
    \/ ProcessDispatch
    \/ ProcessRetain
    \/ \E c \in DOMAIN audio_channels : AudioRecv(c)
    \/ \E c \in DOMAIN audio_channels : AudioDrop(c)

SpecProcess == InitProcess /\ [][NextProcess]_vars

\* The AudioConfig an AudioMixer is built with: one channel of one frame, to
\* keep the buffers short.
MixerConfig == [channels |-> 1, frames |-> 1]

\* The indexes passed to get_mix: those of the first and the last bus, and the
\* first index past the buses.
BusIndexes == {0, MAX_AUDIO_MIXES - 1, MAX_AUDIO_MIXES}

\* The sources mixed into a bus: one source of one sample of 1.5.
BusSources == {<<[data |-> <<<<15>>>>, frames |-> 1]>>}

\* What the clients of an AudioMixer do in one run: one encoder is connected
\* and may drop its Receiver while process_all_mixes is called often enough to
\* fill its queue, or several encoders are connected and one bus is mixed into
\* while process_all_mixes is called once.
MixerScenarios ==
    {[mixes |-> 0, sources |-> 1, connects |-> 1, processes |-> MaxProcessAlls, drops |-> 1],
     [mixes |-> 1, sources |-> 1, connects |-> MaxBusConnects, processes |-> 1, drops |-> 0]}

\* An AudioMixer one thread calls process_all_mixes on, while clients connect
\* encoders to its buses and mix into them, and encoders receive or drop
\* their Receiver.
InitMixer ==
    /\ VideoIdle /\ PoolIdle /\ SceneIdle /\ KernelIdle
    /\ mix = None
    /\ mixed = None
    /\ mix_pc = "idle"
    /\ audio_channels = <<>>
    /\ audio_budget \in MixerScenarios
    /\ mixes = AudioMixerNew(MixerConfig)
    /\ frames_processed = 0
    /\ bus_pc = [k \in 1..MAX_AUDIO_MIXES |-> "idle"]
    /\ process_from = None

NextMixer ==
    \/ \E index \in BusIndexes, use_unclamped \in BOOLEAN :
           BusConnectEncoder(index, use_unclamped)
    \/ \E index \in BusIndexes, sources \in BusSources : BusMixSources(index, sources)
    \/ ProcessAllStart
    \/ \E k \in DOMAIN bus_pc : BusProcess(k)
    \/ \E k \in DOMAIN bus_pc : BusRetain(k)
    \/ ProcessAllReturn
    \/ \E c \in DOMAIN audio_channels : AudioRecv(c)
    \/ \E c \in DOMAIN audio_channels : AudioDrop(c)

SpecMixer == InitMixer /\ [][NextMixer]_vars

\* The samples of the buffers clamped: in range, at the limits, out of range
\* (up to 2.0 and down to -2.0) and NaN.
ClampSamples == <<NaN, -20, -15, -One, -5, 0, 5, 9, One, 15, 20>>

\* A buffer of len samples: the samples above in turn, from the one at start
\* on, every stride-th.
PatternBuffer(len, start, stride) ==
    [i \in 1..len |-> ClampSamples[((start + (i - 1) * stride) % Len(ClampSamples)) + 1]]

\* Buffers of up to MaxClampLen samples, on a machine with or without AVX,
\* clamped by a client that calls the kernels.
InitClamp ==
    /\ VideoIdle /\ PoolIdle /\ SceneIdle /\ AudioIdle /\ ConvIdle /\ AllocIdle
    /\ CropIdle /\ CloneIdle
    /\ \E n \in 1..MaxClampChannels, len \in 0..MaxClampLen,
          start \in 0..(Len(ClampSamples) - 1), stride \in {1, 3} :
           clamp_buffers = [c \in 1..n |-> PatternBuffer(len, start + c - 1, stride)]
    /\ has_avx \in BOOLEAN
    /\ clamp_last = None
    /\ clamped_channels = {}
    /\ clamp_budget = MaxClampCalls

NextClamp ==
    \/ \E kernel \in Kernels, c \in DOMAIN clamp_buffers : ClampCall(kernel, c)
    \/ ClampChannelsCall

SpecClamp == InitClamp /\ [][NextClamp]_vars

\* The UYVY images converted: byte i of row r is mult * (i + r * in_linesize)
\* + r * row_step + offset, modulo 256.
PatternImage(width, height, mult, row_step, offset) ==
    [j \in 1..(height * width * 2) |->
        (mult * (j - 1) + ((j - 1) \div (width * 2)) * row_step + offset) % 256]

\* Widths are the multiples of 8 up to 16 * MaxBlocks, heights the even
\* numbers up to 2 * MaxRowPairs.
ConvWidths == {8 * k : k \in 1..(2 * MaxBlocks)}
ConvHeights == {2 * k : k \in 1..MaxRowPairs}

\* An image and zeroed output buffers of width * height and width * height / 2
\* bytes, with linesizes width * 2, width and width, on a machine with or
\* without AVX2; a client calls the conversion functions.
InitConvert ==
    /\ VideoIdle /\ PoolIdle /\ SceneIdle /\ AudioIdle /\ ClampIdle /\ AllocIdle
    /\ CropIdle /\ CloneIdle
    /\ \E width \in ConvWidths, height \in ConvHeights,
          mult \in {0, 1, 7}, row_step \in {0, 1}, offset \in {0, 100, 255} :
           /\ conv_input = PatternImage(width, height, mult, row_step, offset)
           /\ conv_shape = [width |-> width, height |-> height, in_linesize |-> width * 2,
                            out_y_linesize |-> width, out_uv_linesize |-> width]
           /\ conv_out = [y |-> [j \in 1..(width * height) |-> 0],
                          uv |-> [j \in 1..((width * height) \div 2) |-> 0]]
    /\ has_avx2 \in BOOLEAN
    /\ conv_last = None

NextConvert == \E converter \in Converters : ConvertCall(converter)

SpecConvert == InitConvert /\ [][NextConvert]_vars

\* The pools: four of the formats, widths that are multiples of 8 (the
\* documentation of FramePool::new asks for that), even heights, one or two
\* frames.
AllocFormats == {"I420", "NV12", "BGRA", "UYVY"}
AllocWidths == {8 * k : k \in 1..MaxAllocCols}
AllocHeights == {2 * k : k \in 1..MaxAllocRows}
GapLists == UNION {[1..capacity -> {0, 1}] : capacity \in 1..MaxAllocFrames}

InitAlloc ==
    /\ VideoIdle /\ PoolIdle /\ SceneIdle /\ AudioIdle /\ ClampIdle /\ ConvIdle
    /\ CropIdle /\ CloneIdle
    /\ \E format \in AllocFormats, width \in AllocWidths, height \in AllocHeights,
          gaps \in GapLists :
           alloc_pool = FramePoolNew(format, width, height,
                            BlockPtrs(FRAME_ALIGNMENT, AllocSize(format, width, height), gaps))
    /\ alloc_ret = None

NextAlloc ==
    \/ AllocAcquire
    \/ \E i \in DOMAIN alloc_pool.frames : AllocRelease(i)

SpecAlloc == InitAlloc /\ [][NextAlloc]_vars

(***************************************************************************)
(* Properties of the video output pipeline                                 *)
(***************************************************************************)
\* Slots of the pool whose plane-0 pointer is that of `frame`.
SlotsOf(fs, frame) == {i \in 1..Len(fs) : fs[i].data = frame.data}

\* A step that completes an unlock_frame call / distributes a popped frame.
UnlockStep == submitted' = submitted + 1
DistributeStep == worker_pc = "fanout" /\ worker_pc' = "check"

\* C1: unlock_frame on a queue that holds 16 frames returns false, adds exactly
\* one to skipped_frames, frees the frame's slot and leaves the queue and
\* total_frames alone; on a queue that is not full it appends the frame stamped
\* with ts, returns true and leaves skipped_frames alone.
C1_UnlockFrameBackpressure ==
    [][UnlockStep =>
        LET ts == Timestamp(submitted + 1) IN
        IF Len(frame_queue) = MAX_CACHE_SIZE
        THEN /\ ret' = [op |-> "unlock_frame", val |-> FALSE]
             /\ skipped_frames' = skipped_frames + 1
             /\ \A i \in SlotsOf(frames, locked) : frames[i].in_use /\ ~frames'[i].in_use
             /\ frame_queue' = frame_queue
             /\ total_frames' = total_frames
        ELSE /\ ret' = [op |-> "unlock_frame", val |-> TRUE]
             /\ frame_queue' = Append(frame_queue,
                                      [frame |-> [data |-> locked.data, timestamp |-> ts],
                                       _timestamp |-> ts])
             /\ skipped_frames' = skipped_frames]_vars

\* C1 witness: an unlock_frame has just been refused on a full queue, after 16
\* were accepted.
C1_Witness ==
    /\ ret = [op |-> "unlock_frame", val |-> FALSE]
    /\ Len(frame_queue) = MAX_CACHE_SIZE
    /\ skipped_frames = 1
    /\ Len(pushed) >= MAX_CACHE_SIZE

\* C2 (as claimed): when the worker has distributed a popped frame, the slot of
\* that frame is back in the pool's free set.
C2_WorkerReleasesSlot ==
    [][DistributeStep =>
        \A i \in SlotsOf(frames, cached.frame) : ~frames'[i].in_use]_vars

\* C2, the state the code reaches instead: every frame ever submitted has been
\* distributed, nobody holds a frame, and yet every slot is in use, so
\* lock_frame returns None from here on.
C2_PoolLeaked ==
    /\ frame_queue = <<>>
    /\ cached = None
    /\ locked = None
    /\ total_frames = Len(pushed)
    /\ PoolStats(frames).available = 0
    /\ ret = [op |-> "lock_frame", val |-> None]

\* The VideoFrame values held by the producer, the frame queue, the worker and
\* the encoder queues that point at slot i, one entry per holder.
Holders(i) ==
    LET at(frame) == frame # None /\ frame.data = frames[i].data
        queued == {k \in 1..Len(frame_queue) : at(frame_queue[k].frame)}
        sent == {s \in (DOMAIN channels) \X (1..ENCODER_QUEUE_CAP) :
                    s[2] <= Len(channels[s[1]].buf) /\ at(channels[s[1]].buf[s[2]])}
    IN  (IF at(locked) THEN {<<"producer">>} ELSE {})
        \cup {<<"frame_queue", k>> : k \in queued}
        \cup (IF cached # None /\ at(cached.frame) THEN {<<"worker">>} ELSE {})
        \cup {<<"encoder", s[1], s[2]>> : s \in sent}

\* C3 (as claimed): every slot is free and held by nobody, or in use and held by
\* exactly one holder.
C3_ExclusiveSlotOwnership ==
    \A i \in 1..Len(frames) :
        Cardinality(Holders(i)) = IF frames[i].in_use THEN 1 ELSE 0

\* C3, a state the code reaches: two encoder queues hold the same slot.
C3_SlotSharedByTwoEncoders ==
    \E i \in 1..Len(frames) :
        \E h1, h2 \in Holders(i) : h1[1] = "encoder" /\ h2[1] = "encoder" /\ h1[2] # h2[2]

\* Frames put into the queue of channel c so far (taken or still queued).
Delivered(c) == channels[c].received \o channels[c].buf

\* C4 (as claimed): an encoder connected with divisor D >= 1, and not
\* disconnected by its owner, has got N/D frames, give or take one, once
\* N >= 10*D frames were distributed since it connected.
C4_RateDivisor ==
    \A c \in DOMAIN channels :
        LET D == channels[c].divisor
            N == total_frames - channels[c].joined
            got == Len(Delivered(c))
        IN  ( /\ D >= 1
              /\ N >= 10 * D
              /\ channels[c].rx_alive
              /\ Connected(encoders, c) \/ channels[c].reaped )
            => /\ (got - 1) * D <= N
               /\ N < (got + 2) * D

\* The effective divisor: the loop sends on every frame when the divisor is 0.
Every(D) == IF D = 0 THEN 1 ELSE D

\* C5: what an encoder gets is a subsequence of the frames pushed, in push order
\* and without repeats, made of frames its divisor lets through only, and fixed
\* by its own connection (when it joined, its divisor) alone: its k-th frame is
\* the (k * divisor)-th frame distributed since it connected.
C5_PerEncoderOrder ==
    \A c \in DOMAIN channels :
        LET got == Delivered(c)
            D == Every(channels[c].divisor)
            at(k) == CHOOSE j \in 1..Len(pushed) : pushed[j] = got[k]
        IN  /\ \A k \in 1..Len(got) : \E j \in 1..Len(pushed) : pushed[j] = got[k]
            /\ \A k \in 1..(Len(got) - 1) : at(k) < at(k + 1)
            /\ \A k \in 1..Len(got) :
                   /\ at(k) > channels[c].joined
                   /\ (at(k) - channels[c].joined) % D = 0
                   /\ at(k) = channels[c].joined + k * D

\* C5 witness: two encoders with different divisors have both taken frames, and
\* the worker has removed one of them.
C5_Witness ==
    \E c1, c2 \in DOMAIN channels :
        /\ channels[c1].divisor = 1 /\ channels[c2].divisor = 2
        /\ channels[c1].reaped /\ Connected(encoders, c2)
        /\ Len(channels[c1].received) >= 2
        /\ Len(channels[c2].received) >= 2

\* C6 (as claimed): the worker does not remove a connection whose encoder is
\* alive, whatever its queue holds at the end of the dispatch.
C6_ReapOnlyDeadEncoders ==
    [][DistributeStep =>
        \A c \in DOMAIN channels :
            (Connected(encoders, c) /\ channels[c].rx_alive)
                => Connected(encoders', c)]_vars

\* C6, the state the code reaches: an encoder that is alive and has since
\* drained its queue is no longer connected, and frames were distributed
\* without it.
C6_SlowEncoderReaped ==
    \E c \in DOMAIN channels :
        /\ channels[c].reaped /\ channels[c].rx_alive
        /\ channels[c].buf = <<>>
        /\ total_frames > channels[c].joined + ENCODER_QUEUE_CAP * Every(channels[c].divisor)

\* C7 (as claimed): when the worker distributes a frame while the queue of an
\* encoder that is alive, and that its owner has not disconnected, is full, the
\* encoder loses that frame and nothing else: its queue is left as it is and it
\* is connected for the frames to come; the encoders whose queues have room
\* get the frame, and total_frames counts it.
C7_DropOnlyThatFrame ==
    [][DistributeStep =>
        /\ total_frames' = total_frames + 1
        /\ \A c \in DOMAIN channels :
            ( /\ channels[c].rx_alive
              /\ Len(channels[c].buf) = ENCODER_QUEUE_CAP
              /\ Connected(encoders, c) \/ channels[c].reaped )
            => /\ channels'[c].buf = channels[c].buf
               /\ Connected(encoders', c)
               /\ \A i \in 1..Len(encoders) :
                    LET o == encoders[i].tx IN
                    ( /\ o # c
                      /\ channels[o].rx_alive
                      /\ DivisorReached(encoders[i])
                      /\ Len(channels[o].buf) < ENCODER_QUEUE_CAP )
                    => channels'[o].buf = Append(channels[o].buf, cached.frame)]_vars

(***************************************************************************)
(* Properties of the frame pool                                            *)
(***************************************************************************)
\* The loans outstanding: a frame a client holds, or has passed to a release
\* that has not cleared the slot yet.
Loans ==
    {<<c, f>> \in Clients \X {[data |-> pool[i].data, timestamp |-> 0] :
                                 i \in 1..Len(pool)} :
        f \in clients[c].holds \/ (clients[c].pc = "release_scan" /\ clients[c].arg = f)}

\* A step in which client c returns from acquire with a frame / with None, and
\* from release.
AcquiredStep(c) == clients[c].pc = "acquire_mark" /\ clients'[c].pc = "idle"
ExhaustedStep(c) == clients[c].pc = "acquire_scan" /\ clients'[c].pc = "idle"
ReleasedStep(c) == clients[c].pc = "release_scan" /\ clients'[c].pc = "idle"

\* C8: stats() always has in_use <= capacity and in_use + available = capacity;
\* in_use is the number of frames on loan, so it is back at its starting value
\* once every acquire has been paired with a release; a successful acquire
\* raises it by one and the release of a held frame lowers it by one.
C8_PoolConservation ==
    /\ [](/\ PoolStats(pool).in_use <= PoolStats(pool).capacity
          /\ PoolStats(pool).in_use + PoolStats(pool).available = PoolStats(pool).capacity
          /\ PoolStats(pool).capacity = Len(pool)
          /\ PoolStats(pool).in_use = Cardinality(Loans))
    /\ [][\A c \in Clients :
            /\ AcquiredStep(c) => PoolStats(pool').in_use = PoolStats(pool).in_use + 1
            /\ (ReleasedStep(c) /\ clients[c].arg # ForeignFrame)
                   => PoolStats(pool').in_use = PoolStats(pool).in_use - 1]_vars

\* C8 witness: after acquires that took every slot, all but one have been
\* released again.
C8_Witness ==
    /\ Len(pool) = MaxCapacity
    /\ PoolStats(pool).in_use = 1
    /\ \E c \in Clients : clients[c].ret = [op |-> "release",
                                             val |-> [data |-> pool[MaxCapacity].data,
                                                      timestamp |-> 0]]

\* C9: acquire returns the lowest-index slot not in use and marks it, and None
\* exactly when every slot is in use; no frame is ever held by two clients;
\* release clears the slot whose plane-0 pointer matches, so a slot is free
\* again afterwards, and release of a frame of no slot changes nothing.
C9_AcquireRelease ==
    /\ [](\A c1, c2 \in Clients :
            c1 # c2 => \A f1 \in clients[c1].holds, f2 \in clients[c2].holds :
                           f1.data # f2.data)
    /\ [][\A c \in Clients :
            /\ AcquiredStep(c) =>
                 \E i \in 1..Len(pool) :
                    /\ ~pool[i].in_use
                    /\ \A j \in 1..(i - 1) : pool[j].in_use
                    /\ clients'[c].ret = [op |-> "acquire",
                                          val |-> [data |-> pool[i].data, timestamp |-> 0]]
                    /\ pool' = [pool EXCEPT ![i].in_use = TRUE]
            /\ ExhaustedStep(c) =>
                 /\ \A i \in 1..Len(pool) : pool[i].in_use
                 /\ clients'[c].ret = [op |-> "acquire", val |-> None]
                 /\ pool' = pool
            /\ (clients[c].pc = "acquire_scan" /\ ~ExhaustedStep(c) /\ clients' # clients)
                 => \E i \in 1..Len(pool) : ~pool[i].in_use
            /\ ReleasedStep(c) =>
                 IF \E i \in 1..Len(pool) : pool[i].data = clients[c].arg.data
                 THEN \E i \in 1..Len(pool) :
                        /\ pool[i].data = clients[c].arg.data
                        /\ pool' = [pool EXCEPT ![i].in_use = FALSE]
                        /\ FirstFree(pool') # 0
                 ELSE pool' = pool]_vars

\* C9 witness: the pool was exhausted (a client got None), a frame was then
\* released, and the next acquire got that slot.
C9_Witness ==
    \E c1, c2 \in Clients :
        /\ c1 # c2
        /\ clients[c1].ret = [op |-> "acquire", val |-> None]
        /\ clients[c2].ret = [op |-> "acquire",
                              val |-> [data |-> pool[1].data, timestamp |-> 0]]
        /\ Len(pool) >= 2
        /\ \A i \in 1..Len(pool) : pool[i].in_use
        /\ \E f \in clients[c1].holds : f.data = pool[2].data

(***************************************************************************)
(* Properties of the scene                                                 *)
(***************************************************************************)
\* The ids add_item has returned so far, and the ids of the calls that have
\* taken an id and not returned yet.
ReturnedIds == {returned[k] : k \in 1..Len(returned)}
InFlightIds == {adders[t].id : t \in {u \in Adders : adders[u] # None}}

\* A step in which thread t takes its id from the counter.
FetchStep(t) == adders[t] = None /\ adders'[t] # None

\* C10: whatever removes, moves, reorders and updates come in between, and
\* also when add_item calls overlap, the ids add_item returns are all distinct
\* and at least 1, and the items of the scene carry returned ids only; a call
\* takes an id greater than every id returned before the call began, so the
\* ids of calls made one after the other increase strictly and the id of a
\* removed item is never given out again.
C10_UniqueIds ==
    /\ [](/\ \A k \in 1..Len(returned) : returned[k] >= 1
          /\ \A j, k \in 1..Len(returned) : returned[j] = returned[k] => j = k
          /\ \A t, u \in Adders :
                (adders[t] # None /\ adders[u] # None /\ t # u)
                    => adders[t].id # adders[u].id
          /\ ReturnedIds \cap InFlightIds = {}
          /\ {items[i].id : i \in 1..Len(items)} \subseteq ReturnedIds)
    /\ [][\A t \in Adders :
            FetchStep(t) => \A id \in ReturnedIds \cup InFlightIds : adders'[t].id > id]_vars

\* C10 witness: an item was added and removed, and the add_item that returned
\* last gave its item a new id.
C10_Witness ==
    /\ Len(returned) >= 2
    /\ Len(items) < Len(returned)
    /\ returned[1] \notin {items[i].id : i \in 1..Len(items)}
    /\ scene_ret = [op |-> "add_item", val |-> returned[Len(returned)]]

(***************************************************************************)
(* Properties of update_item, update_transforms and render_items           *)
(***************************************************************************)
\* The ids of the items of a list, and the sources a source_dimensions slice
\* has an entry for.
IdsOf(its) == {its[i].id : i \in 1..Len(its)}
SourcesIn(source_dimensions) ==
    {source_dimensions[k][1] : k \in 1..Len(source_dimensions)}

\* A step after which the last scene call that returned is a call of op, as
\* it is after every step that is such a call.
IsCall(op) == scene_ret' # None /\ scene_ret'.op = op

\* C11: update_item(id, mutator) returns true exactly when the scene has an
\* item with that id; on a hit that item is dirty afterwards whatever the
\* mutator did, on a miss the items are as before; an update_transforms whose
\* dimensions name the source of an item leaves that item clean; an item
\* just added is dirty.
C11_UpdateMarksDirty ==
    [][/\ \A id \in CallIds, mutator \in TransformMutators :
            (IsCall("update_item") /\ UpdateItem(id, mutator)) =>
                /\ scene_ret'.val = (id \in IdsOf(items))
                /\ id \in IdsOf(items) =>
                     /\ Len(items') = Len(items)
                     /\ \A i \in 1..Len(items) :
                            items[i].id = id => /\ items'[i].id = id
                                                /\ items'[i].transform_dirty
                /\ id \notin IdsOf(items) => items' = items
       /\ \A source_dimensions \in DimLists :
            ( /\ IsCall("update_transforms")
              /\ scene_ret'.val = source_dimensions
              /\ UpdateTransforms(source_dimensions) ) =>
                \A i \in 1..Len(items') :
                    items'[i].source_id \in SourcesIn(source_dimensions)
                        => ~items'[i].transform_dirty
       /\ \A t \in Adders :
            AddItemPush(t) => items'[Len(items')].transform_dirty]_vars

\* C11 witness: an item whose transforms had been computed is dirty again
\* after an update_item whose mutator touched nothing.
C11_Witness ==
    /\ scene_ret = [op |-> "update_item", val |-> TRUE]
    /\ \E i \in 1..Len(items) :
           /\ items[i].transform_dirty
           /\ items[i].last_width # 0
           /\ items[i].visible
           /\ items[i].pos = Vec2Zero

\* The visible items of a list, in the order of the list.
VisibleItems(its) == SelectSeq(its, LAMBDA it : it.visible)

\* Thread r is in render_items / has finished the loop of render_items.
Iterating(r) == renderers[r].pc = "iterating"
LoopDone(r) == Iterating(r) /\ renderers[r].idx > Len(items)

\* C12: render_items calls its visitor once on each visible item and on no
\* hidden one, in scene order: while it loops it has visited the visible items
\* before its index, and when it returns it has visited the visible items of
\* the scene, so that render_scene returns one command for each of them in
\* that order and an item hidden by update_item is not visited by the next
\* render_items.
C12_RenderVisitsVisible ==
    /\ [](\A r \in Renderers :
            Iterating(r) =>
                renderers[r].visited
                    = VisibleItems(SubSeq(items, 1, renderers[r].idx - 1)))
    /\ [][\A r \in Renderers :
            RenderReturn(r) =>
                LET commands == RenderScene(renderers[r].visited)
                    visible == {i \in 1..Len(items) : items[i].visible}
                IN  /\ renderers[r].visited = VisibleItems(items)
                    /\ Len(commands) = Cardinality(visible)
                    /\ \A k \in 1..Len(commands) :
                          commands[k].source_id = VisibleItems(items)[k].source_id]_vars

\* C12 witness: a render_items that is not the first has finished its loop
\* over two items, the second of which update_item has hidden, and has
\* visited the first only.
C12_Witness ==
    \E r \in Renderers :
        /\ LoopDone(r)
        /\ render_count >= 2
        /\ Len(items) = 2
        /\ ~items[2].visible
        /\ renderers[r].visited = <<items[1]>>

UpdateTransformsReturned(source_dimensions) ==
    scene_ret = [op |-> "update_transforms", val |-> source_dimensions]

\* C14 (as claimed): when update_transforms returns, every item whose source
\* is in the map with (w, h) is clean and has last_width = w and
\* last_height = h, whether it was dirty or was clean with another size.
C14_RecomputeOnSizeChange ==
    \A source_dimensions \in DimLists :
        UpdateTransformsReturned(source_dimensions) =>
            \A i \in 1..Len(items) :
                items[i].source_id \in DOMAIN DimMap(source_dimensions) =>
                    /\ ~items[i].transform_dirty
                    /\ items[i].last_width = DimMap(source_dimensions)[items[i].source_id][1]
                    /\ items[i].last_height = DimMap(source_dimensions)[items[i].source_id][2]

\* C14, the state the code reaches: update_transforms has returned and an item
\* whose source it was given the size of is clean with the cached values of
\* another size.
C14_StaleSize ==
    \E source_dimensions \in DimLists :
        /\ UpdateTransformsReturned(source_dimensions)
        /\ \E i \in 1..Len(items) :
              /\ items[i].source_id \in DOMAIN DimMap(source_dimensions)
              /\ ~items[i].transform_dirty
              /\ items[i].last_width # 0
              /\ items[i].box_scale # DimMap(source_dimensions)[items[i].source_id]

\* The values update_item_transform caches in an item.
Cached(item) ==
    <<item.draw_transform, item.box_transform, item.output_scale, item.box_scale,
      item.bounds_crop, item.last_width, item.last_height>>

\* C15: once update_transforms(dims) has run, running it again with the same
\* dims and nothing in between leaves the cached values of every item as
\* they are (a second run would write what is there); and
\* update_item_transform on a clean item returns the item as it is, whatever
\* size it is given.
C15_UpdateTransformsIdempotent ==
    /\ \A source_dimensions \in DimLists :
          UpdateTransformsReturned(source_dimensions) =>
              \A i \in 1..Len(items) :
                  Cached(TransformUpdated(items[i], DimMap(source_dimensions)))
                      = Cached(items[i])
    /\ \A i \in 1..Len(items), z \in Sizes :
          ~items[i].transform_dirty => UpdateItemTransform(items[i], z[1], z[2]) = items[i]

\* C15 witness: update_transforms has computed the transforms of a moved item
\* at the size it was given for the item's source.
C15_Witness ==
    \E source_dimensions \in DimLists :
        /\ UpdateTransformsReturned(source_dimensions)
        /\ \E i \in 1..Len(items) :
              /\ items[i].source_id \in DOMAIN DimMap(source_dimensions)
              /\ items[i].pos = <<100, 200>>
              /\ ~items[i].transform_dirty
              /\ items[i].box_scale = DimMap(source_dimensions)[items[i].source_id]
              /\ items[i].draw_transform.tx = 100 - (items[i].last_width \div 2)

Without(its, id) == SelectSeq(its, LAMBDA it : it.id # id)
IdSeq(its) == [i \in 1..Len(its) |-> its[i].id]

\* The ids an order list names, in the order of the list.
OrderedIds(order) == [k \in 1..Len(order) |-> order[k][1]]

\* C17 (as claimed): reorder_items puts the listed items first, in the order
\* of the list (an id listed twice counts where it is listed first), and after
\* them the items the list does not name, in the order they had.
C17_ReorderKeepsRemainingOrder ==
    [][\A order \in OrderListsOf(OrderIds) :
          ReorderItems(order) =>
              LET first == Listed(order, IdsOf(items))
                  named == {first[k] : k \in 1..Len(first)}
                  remaining == SelectSeq(items, LAMBDA it : it.id \notin named)
              IN  /\ Len(items') = Len(items)
                  /\ \A k \in 1..Len(first) : items'[k].id = first[k]
                  /\ SubSeq(items', Len(first) + 1, Len(items')) = remaining]_vars

\* C18: move_item(id, new_index) returns false and leaves the items as they
\* are when no item has the id or new_index is not below the length;
\* otherwise it returns true, the item is at new_index afterwards, and the
\* other items are as many as before and in the order they had.
C18_MoveItem ==
    [][\A id \in OrderIds, new_index \in 0..MaxItems :
          MoveItem(id, new_index) =>
              IF id \notin IdsOf(items) \/ new_index >= Len(items)
              THEN /\ scene_ret' = [op |-> "move_item", val |-> FALSE]
                   /\ items' = items
              ELSE /\ scene_ret' = [op |-> "move_item", val |-> TRUE]
                   /\ Len(items') = Len(items)
                   /\ items'[new_index + 1] = items[Position(items, id)]
                   /\ Without(items', id) = Without(items, id)]_vars

\* C18 witness: of the three items added in the order 1, 2, 3 the first has
\* been moved to the end and the others have kept their order.
C18_Witness ==
    /\ scene_ret = [op |-> "move_item", val |-> TRUE]
    /\ returned = <<1, 2, 3>>
    /\ IdSeq(items) = <<2, 3, 1>>

\* C19: remove_item(id) returns true exactly when an item has the id; it then
\* takes out that item and no other, so there is one item less and the rest
\* keep their order; for an id no item has (one never given out, or one
\* removed before) it returns false and the items stay as they are.
C19_RemoveItem ==
    [][\A id \in OrderIds :
          RemoveItem(id) =>
              IF id \in IdsOf(items)
              THEN /\ scene_ret' = [op |-> "remove_item", val |-> TRUE]
                   /\ Len(items') = Len(items) - 1
                   /\ items' = Without(items, id)
                   /\ id \notin IdsOf(items')
              ELSE /\ scene_ret' = [op |-> "remove_item", val |-> FALSE]
                   /\ items' = items]_vars

\* C19 witness: of the three items added the first has been removed and the
\* other two are in the order they had.
C19_Witness ==
    /\ scene_ret = [op |-> "remove_item", val |-> TRUE]
    /\ returned = <<1, 2, 3>>
    /\ IdSeq(items) = <<2, 3>>

(***************************************************************************)
(* C20  mix_sources sums the sources and clamps the sum                    *)
(***************************************************************************)
\* The sum of the samples that the sources having channel c and frame f have
\* there; 0 when no source has them.
RECURSIVE SumAt(_, _, _)
SumAt(sources, c, f) ==
    IF sources = <<>> THEN 0
    ELSE LET last == sources[Len(sources)]
             rest == SumAt(SubSeq(sources, 1, Len(sources) - 1), c, f)
         IN  IF c <= Len(last.data) /\ f <= Len(last.data[c])
             THEN AddSample(rest, last.data[c][f])
             ELSE rest

MixSourcesReturned == mixed # None

\* C20: after mix_sources(sources) both accumulators still have the channels
\* and frames of the bus, and for every bus channel c and bus frame f
\* unclamped[c][f] is the sum of the samples the sources have at channel c and
\* frame f, whatever the accumulator held before and whatever the sources hold
\* beyond the channels and frames of the bus, and clamped[c][f] is that sum
\* clamped.
C20_MixSourcesSumsAndClamps ==
    MixSourcesReturned =>
        LET unclamped == mix.buffer_unclamped.data
            clamped == mix.buffer_clamped.data
        IN  /\ Len(unclamped) = mix.channels
            /\ Len(clamped) = mix.channels
            /\ \A c \in 1..mix.channels :
                   /\ Len(unclamped[c]) = mix.frames_per_buffer
                   /\ Len(clamped[c]) = mix.frames_per_buffer
                   /\ \A f \in 1..mix.frames_per_buffer :
                          /\ unclamped[c][f] = SumAt(mixed.sources, c, f)
                          /\ clamped[c][f] = ClampSample(unclamped[c][f])

\* A bus of one channel and one frame that held a sample other than 0.0 is
\* mixed from one source of two channels and two frames of 1.5: unclamped
\* 1.5, clamped 1.0.
C20_Witness ==
    /\ MixSourcesReturned
    /\ mix.channels = 1
    /\ mix.frames_per_buffer = 1
    /\ mixed.before[1][1] # 0
    /\ Len(mixed.sources) = 1
    /\ mixed.sources[1].data = <<<<15, 15>>, <<15, 15>>>>
    /\ mix.buffer_unclamped.data = <<<<15>>>>
    /\ mix.buffer_clamped.data = <<<<One>>>>

(***************************************************************************)
(* C21  process() offers each connected encoder one copy of the bus output *)
(***************************************************************************)
\* The connections of mix m that send on channel c.
ConnectionsOn(m, c) == {i \in 1..Len(m.encoders) : m.encoders[i].tx = c}

\* The accumulators of a mix.
Accumulators(m) == <<m.buffer_unclamped, m.buffer_clamped>>

\* C21: the send loop of process() leaves the channels of no connection alone
\* and, for each connection, appends to its queue one copy of the unclamped
\* accumulator if use_unclamped is set and of the clamped accumulator
\* otherwise, or leaves the queue as it is when the queue holds 4 buffers or
\* the Receiver is gone; no step of process() changes either accumulator.
C21_ProcessOffersOneCopy ==
    [][/\ ProcessDispatch =>
            /\ Accumulators(mix') = Accumulators(mix)
            /\ DOMAIN audio_channels' = DOMAIN audio_channels
            /\ \A c \in DOMAIN audio_channels :
                   LET chan == audio_channels[c]
                       after == audio_channels'[c]
                   IN  IF ConnectionsOn(mix, c) = {}
                       THEN after = chan
                       ELSE \A i \in ConnectionsOn(mix, c) :
                                LET copy == IF mix.encoders[i].use_unclamped
                                            THEN mix.buffer_unclamped
                                            ELSE mix.buffer_clamped
                                IN  /\ after.rx_alive = chan.rx_alive
                                    /\ after.buf =
                                           IF chan.rx_alive /\ Len(chan.buf) < AUDIO_QUEUE_CAP
                                           THEN Append(chan.buf, copy)
                                           ELSE chan.buf
       /\ ProcessRetain =>
            /\ Accumulators(mix') = Accumulators(mix)
            /\ audio_channels' = audio_channels]_vars

\* The send loop has just run on a mix whose accumulators differ (unclamped
\* 1.5, clamped 1.0): the newest buffer queued for a connection that asked
\* for unclamped data is the unclamped one, that of a connection that did not
\* is the clamped one.
C21_Witness ==
    /\ mix # None
    /\ mix_pc = "retain"
    /\ mix.buffer_unclamped.data = <<<<15>>>>
    /\ mix.buffer_clamped.data = <<<<One>>>>
    /\ \E i, j \in 1..Len(mix.encoders) :
           LET qi == audio_channels[mix.encoders[i].tx].buf
               qj == audio_channels[mix.encoders[j].tx].buf
           IN  /\ mix.encoders[i].use_unclamped
               /\ ~mix.encoders[j].use_unclamped
               /\ qi # <<>> /\ qi[Len(qi)] = mix.buffer_unclamped
               /\ qj # <<>> /\ qj[Len(qj)] = mix.buffer_clamped

(***************************************************************************)
(* C22  six buses; process_all_mixes processes the buses that have inputs  *)
(***************************************************************************)
Buses == 1..MAX_AUDIO_MIXES

\* An AudioMixer has been constructed.
MixerInUse == bus_pc # <<>>

\* C22, the buses: an AudioMixer has MAX_AUDIO_MIXES buses at all times, and
\* get_mix(index) returns one exactly for the indexes below MAX_AUDIO_MIXES.
SixBuses ==
    MixerInUse =>
        /\ Len(mixes) = MAX_AUDIO_MIXES
        /\ \A index \in 0..(MAX_AUDIO_MIXES + 1) :
               (GetMix(index) # None) <=> (index < MAX_AUDIO_MIXES)

\* C22, the processing: when process_all_mixes comes to a bus that has a
\* connection it runs process() on it, and when it comes to a bus that has
\* none it leaves every bus and every queue as they are; it adds one to
\* frames_processed when it returns, and no other step changes the counter.
ProcessesActiveBuses ==
    /\ \A k \in Buses :
           BusProcess(k) =>
               /\ mixes' = mixes
               /\ IF mixes[k].encoders # <<>>
                  THEN /\ audio_channels' = Dispatch(mixes[k], audio_channels)
                       /\ bus_pc'[k] = "retain"
                  ELSE /\ audio_channels' = audio_channels
                       /\ bus_pc'[k] = "done"
    /\ ProcessAllReturn => frames_processed' = frames_processed + 1
    /\ ~ProcessAllReturn => frames_processed' = frames_processed

C22_SixBusesActiveProcessed == []SixBuses /\ [][ProcessesActiveBuses]_vars

\* process_all_mixes has returned twice on a mixer of which one bus has a
\* connection and five have none: the counter is 2, and one buffer is queued
\* for the encoder.
C22_Witness ==
    /\ MixerInUse
    /\ frames_processed = 2
    /\ \A k \in Buses : bus_pc[k] = "idle"
    /\ Cardinality({k \in Buses : mixes[k].encoders # <<>>}) = 1
    /\ Len(audio_channels) = 1
    /\ Len(audio_channels[1].buf) = 1

(***************************************************************************)
(* C23  process_all_mixes in parallel is as processing bus after bus       *)
(***************************************************************************)
\* The buses and queues st after the closure of process_all_mixes has run on
\* bus k from its start to its end with nothing in between.
ProcessedBus(st, k) ==
    IF st.mixes[k].encoders = <<>> THEN st
    ELSE LET sent == Dispatch(st.mixes[k], st.channels)
         IN  [mixes |-> [st.mixes EXCEPT ![k].encoders = RetainNotFull(@, sent)],
              channels |-> sent]

\* The closures run one after the other, on the buses in the given order.
RECURSIVE ProcessedInOrder(_, _)
ProcessedInOrder(st, order) ==
    IF order = <<>> THEN st
    ELSE ProcessedInOrder(ProcessedBus(st, Head(order)), Tail(order))

\* The orders the buses that had a connection when the call began can be
\* processed in; a bus that had none is left as it is wherever it comes.
ActiveOrders == Enumerations({k \in Buses : process_from.mixes[k].encoders # <<>>})

\* Every closure of the running call has returned and nobody else has acted
\* on the mixer since the call began.
ProcessedUndisturbed ==
    /\ MixerInUse
    /\ process_from # None
    /\ \A k \in Buses : bus_pc[k] = "done"

\* The closures of process_all_mixes have run interleaved in some way: the
\* buses and the queues are what processing the buses one after the other
\* makes of what the call found, whatever the order.
ParallelAsSequential ==
    ProcessedUndisturbed =>
        \A order \in ActiveOrders :
            ProcessedInOrder(process_from, order) =
                [mixes |-> mixes, channels |-> audio_channels]

\* A step of the closure on bus k changes no other bus and no queue of an
\* encoder of another bus.
NoCrossTalk ==
    \A k \in Buses :
        (BusProcess(k) \/ BusRetain(k)) =>
            /\ \A j \in Buses \ {k} : mixes'[j] = mixes[j]
            /\ DOMAIN audio_channels' = DOMAIN audio_channels
            /\ \A c \in DOMAIN audio_channels :
                   ConnectionsOn(mixes[k], c) = {} => audio_channels'[c] = audio_channels[c]

\* C23: a process_all_mixes call that runs undisturbed leaves the buses and
\* the queues as processing the buses one after the other in any order does,
\* and no step of it on one bus writes another bus or its queues.
C23_ParallelAsSequential == []ParallelAsSequential /\ [][NoCrossTalk]_vars

\* The call found two buses with a connection each, one of them mixed to
\* 1.5, and has processed both: each encoder has the buffer of its own bus.
C23_Witness ==
    /\ ProcessedUndisturbed
    /\ \E j, k \in Buses :
           /\ j # k
           /\ process_from.mixes[j].encoders # <<>>
           /\ process_from.mixes[k].encoders # <<>>
           /\ mixes[j].buffer_unclamped.data = <<<<15>>>>
           /\ mixes[k].buffer_unclamped.data = <<<<0>>>>
           /\ audio_channels[mixes[j].encoders[1].tx].buf = <<DataFor(mixes[j], mixes[j].encoders[1])>>
           /\ audio_channels[mixes[k].encoders[1].tx].buf = <<mixes[k].buffer_clamped>>

(***************************************************************************)
(* C30  process() reaps on a full queue, not on a dropped Receiver         *)
(***************************************************************************)
\* The connections of bus k whose Receiver is gone and whose queue is not full.
DeadNotFull(k) ==
    {i \in 1..Len(mixes[k].encoders) :
        LET chan == audio_channels[mixes[k].encoders[i].tx]
        IN  ~chan.rx_alive /\ ~AudioIsFull(chan)}

\* The channels the connections of bus k send on, after the step.
SendersAfter(k) == {mixes'[k].encoders[i].tx : i \in 1..Len(mixes'[k].encoders)}

\* The retain of process() removes exactly the connections whose queue is
\* full at that moment.
ReapsOnlyFull ==
    \A k \in Buses :
        BusRetain(k) =>
            \A i \in 1..Len(mixes[k].encoders) :
                (mixes[k].encoders[i].tx \in SendersAfter(k))
                    <=> ~AudioIsFull(audio_channels[mixes[k].encoders[i].tx])

\* A connection whose Receiver is gone and whose queue is not full is still
\* a connection of its bus after any step, with its queue as it was.
DeadStays ==
    \A k \in Buses :
        \A i \in DeadNotFull(k) :
            /\ mixes[k].encoders[i].tx \in SendersAfter(k)
            /\ audio_channels'[mixes[k].encoders[i].tx] = audio_channels[mixes[k].encoders[i].tx]

\* stats() counts the buses that have such connections, and the connections.
DeadCounted ==
    MixerInUse =>
        /\ Stats.active_mixes >= Cardinality({k \in Buses : DeadNotFull(k) # {}})
        /\ \A k \in Buses : DeadNotFull(k) # {} => Stats.total_inputs >= Cardinality(DeadNotFull(k))

ClampReturned == clamp_last # None

\* 0 for NaN, max(-1, min(1, x)) for any other sample x.
Pointwise(x) ==
    IF x = NaN THEN 0
    ELSE LET low == IF x < One THEN x ELSE One
         IN  IF low > -One THEN low ELSE -One

InRange(x) == x # NaN /\ -One <= x /\ x <= One

\* C24: after a clamping kernel has returned (clamp_audio on a machine with
\* or without AVX, clamp_audio_avx, clamp_audio_scalar,
\* clamp_audio_channels), every channel it was called on has its length, each
\* of its samples is 0 where the sample was NaN and max(-1, min(1, x)) where
\* it was x, a sample that was in [-1, 1] is unchanged, every sample is in
\* [-1, 1] and none is NaN; the other channels are as they were.
C24_ClampPointwise ==
    ClampReturned =>
        /\ DOMAIN clamp_buffers = DOMAIN clamp_last.before
        /\ \A c \in DOMAIN clamp_buffers :
               LET before == clamp_last.before[c]
                   after == clamp_buffers[c]
               IN  IF c \in clamp_last.channels
                   THEN /\ Len(after) = Len(before)
                        /\ \A i \in 1..Len(before) :
                               /\ after[i] = Pointwise(before[i])
                               /\ InRange(before[i]) => after[i] = before[i]
                               /\ InRange(after[i])
                   ELSE after = before

\* clamp_audio has taken the AVX path on a buffer of 17 samples, two bodies
\* of 8 lanes and a tail of one: there was a NaN and a 2.0 in the bodies and
\* a NaN in the tail.
C24_Witness ==
    /\ ClampReturned
    /\ clamp_last.kernel = "clamp_audio"
    /\ has_avx
    /\ \E c \in clamp_last.channels :
           LET before == clamp_last.before[c]
           IN  /\ Len(before) = 17
               /\ before[17] = NaN
               /\ clamp_buffers[c][17] = 0
               /\ \E i, j \in 1..16 :
                      /\ before[i] = NaN /\ clamp_buffers[c][i] = 0
                      /\ before[j] = 20 /\ clamp_buffers[c][j] = One

(***************************************************************************)
(* C25  clamping is idempotent                                             *)
(***************************************************************************)
\* C25: a clamping kernel called on a channel that a clamping kernel has
\* been called on before leaves it as it is, and clamp_audio_channels called
\* on channels that have all been clamped before leaves them all as they are.
C25_ClampIdempotent ==
    [][/\ \A kernel \in Kernels, c \in DOMAIN clamp_buffers :
              (ClampCall(kernel, c) /\ c \in clamped_channels) =>
                  clamp_buffers'[c] = clamp_buffers[c]
       /\ (ClampChannelsCall /\ clamped_channels = DOMAIN clamp_buffers) =>
              clamp_buffers' = clamp_buffers]_vars

\* clamp_audio_channels has been called on two channels of at least 11
\* samples (among them NaN and out-of-range samples before the first
\* clamping) and has found them clamped already.
C25_Witness ==
    /\ ClampReturned
    /\ clamp_last.kernel = "clamp_audio_channels"
    /\ Len(clamp_buffers) = 2
    /\ Len(clamp_buffers[1]) >= 11
    /\ clamp_last.before = clamp_buffers
    /\ \E i, j \in 1..Len(clamp_buffers[1]) :
           clamp_buffers[1][i] = One /\ clamp_buffers[1][j] = -One

(***************************************************************************)
(* C26  the AVX2 kernel writes what the scalar reference writes            *)
(***************************************************************************)
ConvReturned == conv_last # None

\* What compress_uyvy_to_nv12_scalar writes on the image, from the output
\* buffers as the last call found them.
ScalarReference ==
    CompressUyvyToNv12Scalar(conv_input, conv_last.before, conv_shape.width,
        conv_shape.height, conv_shape.in_linesize, conv_shape.out_y_linesize,
        conv_shape.out_uv_linesize)

\* C26: when compress_uyvy_to_nv12_avx2 or compress_uyvy_to_nv12 has returned
\* from a call with a width that is a multiple of 16 and an even height,
\* output_y and output_uv are byte for byte what compress_uyvy_to_nv12_scalar
\* writes for the same image.
C26_Avx2EqualsScalar ==
    (/\ ConvReturned
     /\ conv_last.converter \in {"compress_uyvy_to_nv12_avx2", "compress_uyvy_to_nv12"}
     /\ conv_shape.width % 16 = 0
     /\ conv_shape.height % 2 = 0)
        => conv_out = ScalarReference

\* compress_uyvy_to_nv12_avx2 has converted a 16 x 2 image whose bytes are
\* all 100: the Y plane is that of the scalar function, the fourth UV pair is
\* 50, 50 where the scalar function writes 100, 100.
C26_Witness ==
    /\ ConvReturned
    /\ conv_last.converter = "compress_uyvy_to_nv12_avx2"
    /\ conv_shape.width = 16 /\ conv_shape.height = 2
    /\ \A j \in DOMAIN conv_input : conv_input[j] = 100
    /\ conv_out.y = ScalarReference.y
    /\ conv_out.uv[7] = 50 /\ conv_out.uv[8] = 50
    /\ ScalarReference.uv[7] = 100 /\ ScalarReference.uv[8] = 100

(***************************************************************************)
(* C27  the scalar chroma average rounds half up                           *)
(***************************************************************************)
\* The scalar function ran in the last call.
ScalarRan ==
    /\ ConvReturned
    /\ \/ conv_last.converter = "compress_uyvy_to_nv12_scalar"
       \/ /\ conv_last.converter = "compress_uyvy_to_nv12"
          /\ ~(has_avx2 /\ conv_shape.width % 16 = 0)

\* Byte c (0 for U, 2 for V) of the UYVY quad of pixels x, x + 1 of row y.
Chroma(x, y, c) == conv_input[y * conv_shape.in_linesize + x * 2 + c + 1]

\* The UV byte written for component c of pixels x, x + 1 of rows y, y + 1.
ChromaOut(x, y, c) ==
    conv_out.uv[(y \div 2) * conv_shape.out_uv_linesize + x + (c \div 2) + 1]

\* Pairs x, y of an even column and an even row of the image.
Blocks2x2 ==
    {p \in (0..(conv_shape.width - 1)) \X (0..(conv_shape.height - 1)) :
        p[1] % 2 = 0 /\ p[2] % 2 = 0}

\* C27: after compress_uyvy_to_nv12_scalar has run, each U and each V byte of
\* output_uv is ceil((a + b) / 2) of the two source samples a (row y) and b
\* (row y + 1) of its column pair, a byte in 0..255.
C27_ScalarRoundsHalfUp ==
    ScalarRan =>
        \A p \in Blocks2x2, c \in {0, 2} :
            LET a == Chroma(p[1], p[2], c)
                b == Chroma(p[1], p[2] + 1, c)
            IN  /\ ChromaOut(p[1], p[2], c) = (a + b + 1) \div 2
                /\ ChromaOut(p[1], p[2], c) \in 0..255

\* The scalar function has averaged the samples 255 (row 0) and 0 (row 1)
\* and has written 127, the half rounded down.
C27_Witness ==
    /\ ScalarRan
    /\ \E p \in Blocks2x2, c \in {0, 2} :
           /\ Chroma(p[1], p[2], c) = 255
           /\ Chroma(p[1], p[2] + 1, c) = 0
           /\ ChromaOut(p[1], p[2], c) = 127

(***************************************************************************)
(* C28  every plane pointer of an acquired frame is 32-byte aligned        *)
(***************************************************************************)
\* C28: every one of the four plane pointers of a frame that acquire has
\* returned is a multiple of FRAME_ALIGNMENT (32), whatever the format, the
\* width and the height of the pool.
C28_PlanesAligned ==
    alloc_ret # None =>
        \A p \in 1..4 : alloc_ret.data[p] % FRAME_ALIGNMENT = 0

\* acquire has returned a frame of an I420 pool of 16 x 2 pixels: plane 0 and
\* plane 1 (32 bytes further) are aligned, plane 2 (8 bytes further) is not.
C28_Witness ==
    /\ alloc_ret # None
    /\ alloc_ret.format = "I420" /\ alloc_ret.width = 16 /\ alloc_ret.height = 2
    /\ alloc_ret.data[1] % FRAME_ALIGNMENT = 0
    /\ alloc_ret.data[2] = alloc_ret.data[1] + 32
    /\ alloc_ret.data[3] = alloc_ret.data[1] + 40
    /\ alloc_ret.data[3] % FRAME_ALIGNMENT = 8

(***************************************************************************)
(* C29  shutdown, join and drop                                            *)
(***************************************************************************)
\* The frame pool of the output has been destroyed.
PoolDestroyed == frames = <<>>

\* The join of shutdown() has returned only if the distribution thread has
\* exited, and the pool is destroyed only after that.
JoinedMeansExited ==
    /\ thread_handle = "none" => (~running /\ worker_pc = "exited")
    /\ PoolDestroyed => (thread_handle = "none" /\ worker_pc = "exited")

\* shutdown() clears the flag, and it stays cleared; a loop test that finds
\* the flag cleared ends the thread, so that after the flag is cleared no
\* iteration begins, and an exited thread stays exited; a shutdown() after
\* one that has returned changes nothing of the output, nor does the drop
\* change the flag, the handle or the thread.
ShutdownSteps ==
    /\ Shutdown => ~running'
    /\ ~running => ~running'
    /\ (WorkerCheck /\ ~running) => worker_pc' = "exited"
    /\ (~running /\ worker_pc' = "pop") => worker_pc = "pop"
    /\ worker_pc = "exited" => worker_pc' = "exited"
    /\ (Shutdown /\ thread_handle = "none") =>
           UNCHANGED <<frames, locked, frame_queue, encoders, channels, worker_pc, cached,
                       total_frames, skipped_frames, running, thread_handle, ret, pushed,
                       submitted>>
    /\ DropFields => UNCHANGED <<running, thread_handle, worker_pc>>

\* C29: shutdown() sets running to false and its join returns only once the
\* distribution thread has exited; once the flag is cleared the thread
\* finishes at most the iteration it is in and exits at its next loop test,
\* whatever is in the queue and whoever is connected, and shutdown() returns;
\* a second shutdown() changes nothing; the frame pool is destroyed only
\* after the thread has been joined.
C29_ShutdownJoinsOnce ==
    /\ []JoinedMeansExited
    /\ [][ShutdownSteps]_vars
    /\ (~running) ~> (worker_pc = "exited")
    /\ (thread_handle = "joining") ~> (thread_handle = "none")

\* shutdown() has been called twice on an output that has distributed a
\* frame: the thread has exited with a frame still in the queue and an
\* encoder still connected, and the pool is still there.
C29_Witness ==
    /\ thread_handle = "none"
    /\ budget.shutdowns = 0
    /\ worker_pc = "exited"
    /\ total_frames >= 1
    /\ frame_queue # <<>>
    /\ encoders # <<>>
    /\ ~PoolDestroyed

\* ---------------------------------------------------------------------------
\* Rate divisor, connect and disconnect, queue bounds (video_output.rs)
\* ---------------------------------------------------------------------------

\* C31: between worker iterations, a connection of divisor D whose receiver
\* is alive has been given exactly the frames number D, 2D, 3D, ... of those
\* distributed since it connected (every frame when D is 0, as for D = 1), its
\* rolling counter is the number of frames distributed since then modulo D,
\* and so 0 <= frame_count < D when D >= 1.
C31_EveryDthFrame ==
    \A i \in 1..Len(encoders) :
        LET c == encoders[i].tx
            D == encoders[i].frame_rate_divisor
            N == total_frames - channels[c].joined
            got == Delivered(c)
        IN  /\ encoders[i].frame_count = N % Every(D)
            /\ D >= 1 => (0 <= encoders[i].frame_count /\ encoders[i].frame_count < D)
            /\ channels[c].rx_alive =>
                   /\ Len(got) = N \div Every(D)
                   /\ \A k \in 1..Len(got) : got[k] = pushed[channels[c].joined + k * Every(D)]

\* C31 witness: a connection of divisor 2 that has let one frame pass and been
\* sent the next, beside a connection of divisor 0 that was sent two frames
\* out of two.
C31_Witness ==
    \E i, j \in 1..Len(encoders) :
        /\ encoders[i].frame_rate_divisor = 2
        /\ total_frames - channels[encoders[i].tx].joined = 3
        /\ encoders[i].frame_count = 1
        /\ Len(Delivered(encoders[i].tx)) = 1
        /\ encoders[j].frame_rate_divisor = 0
        /\ channels[encoders[j].tx].rx_alive
        /\ total_frames - channels[encoders[j].tx].joined = 2
        /\ Len(Delivered(encoders[j].tx)) = 2

\* ---------------------------------------------------------------------------
\* The fan-out step by step, with the write lock on the encoders
\* (video_output.rs, spawn_video_thread and connect / disconnect_encoder)
\* ---------------------------------------------------------------------------

\* Bound of the step-by-step runs: lock_frame calls.
MaxLockFrames == 2

\* Positions of the distribution thread inside the for loop over the
\* connections, the write guard held: SendPc[i] is "about to visit the i-th".
SendPc == <<"send1", "send2", "send3", "send4">>

\* Does the distribution thread hold encoders.write()?
WorkerHoldsWrite == \E i \in DOMAIN SendPc : worker_pc = SendPc[i]

\* The connection the for loop is at.
SendIndex == CHOOSE i \in DOMAIN SendPc : worker_pc = SendPc[i]

\* let mut encoders_lock = encoders.write(): every other holder has the lock
\* for the length of one call, so the thread gets it.
WorkerWrite ==
    /\ worker_pc = "fanout"
    /\ worker_pc' = SendPc[1]
    /\ UNCHANGED <<poolVars, sceneVars, audioVars, kernelVars, frames, locked, frame_queue, encoders, channels, cached,
                   total_frames, skipped_frames, running, thread_handle, ret, pushed,
                   submitted, budget>>

\* One iteration of for encoder in encoders_lock.iter_mut().
WorkerSend ==
    /\ WorkerHoldsWrite
    /\ SendIndex <= Len(encoders)
    /\ LET encoder == encoders[SendIndex]
       IN /\ encoders' = [encoders EXCEPT ![SendIndex] = StepEncoder(encoder)]
          /\ channels' = IF DivisorReached(encoder)
                         THEN [channels EXCEPT ![encoder.tx] = TrySend(@, cached.frame)]
                         ELSE channels
    /\ worker_pc' = SendPc[SendIndex + 1]
    /\ UNCHANGED <<poolVars, sceneVars, audioVars, kernelVars, frames, locked, frame_queue, cached,
                   total_frames, skipped_frames, running, thread_handle, ret, pushed,
                   submitted, budget>>

\* After the loop: retain, total_frames.fetch_add, and the guard is dropped at
\* the end of the block.
WorkerRetain ==
    /\ WorkerHoldsWrite
    /\ SendIndex > Len(encoders)
    /\ channels' = NoteReaped(channels, encoders, Retain(encoders, channels))
    /\ encoders' = Retain(encoders, channels)
    /\ total_frames' = total_frames + 1
    /\ cached' = None
    /\ worker_pc' = "check"
    /\ UNCHANGED <<poolVars, sceneVars, audioVars, kernelVars, frames, locked, frame_queue, skipped_frames, running,
                   thread_handle, ret, pushed, submitted, budget>>

\* Mutant of EncodersWrite: the lock is given while the thread holds it.
EncodersWrite_Unlocked == TRUE

\* self.encoders.write() in connect_encoder and disconnect_encoder: granted
\* when the distribution thread does not hold the lock.
EncodersWrite == ~WorkerHoldsWrite

\* connect_encoder and disconnect_encoder, each under the write lock.
LockedConnect(id, frame_rate_divisor) ==
    /\ EncodersWrite
    /\ ConnectEncoder(id, frame_rate_divisor)

LockedDisconnect(encoder_id) ==
    /\ EncodersWrite
    /\ DisconnectEncoder(encoder_id)

\* A VideoOutput with encoders that connect, disconnect, read and drop their
\* receivers while frames are distributed.
InitLock ==
    /\ PoolIdle /\ SceneIdle /\ AudioIdle /\ KernelIdle
    /\ frames = NewPool(MAX_CACHE_SIZE + POOL_EXTRA_FRAMES)
    /\ locked = None
    /\ frame_queue = <<>>
    /\ encoders = <<>>
    /\ channels = <<>>
    /\ worker_pc = "check"
    /\ cached = None
    /\ total_frames = 0
    /\ skipped_frames = 0
    /\ running = TRUE
    /\ thread_handle = "some"
    /\ ret = None
    /\ pushed = <<>>
    /\ submitted = 0
    /\ budget = [locks |-> MaxLockFrames, connects |-> 2, churn |-> TRUE, shutdowns |-> 0]

NextLock ==
    \/ LockFrame
    \/ UnlockFrame(locked, Timestamp(submitted + 1))
    \/ WorkerCheck
    \/ WorkerPop
    \/ WorkerWrite
    \/ WorkerSend
    \/ WorkerRetain
    \/ \E id \in EncoderIds, d \in 0..MaxDivisor : LockedConnect(id, d)
    \/ \E id \in EncoderIds : LockedDisconnect(id)
    \/ \E c \in DOMAIN channels : EncoderRecv(c)
    \/ \E c \in DOMAIN channels : EncoderDrop(c)

SpecLock == InitLock /\ [][NextLock]_vars

\* The connections of a list without their rolling counters.
Connections(encs) ==
    [i \in 1..Len(encs) |->
        [id |-> encs[i].id, frame_rate_divisor |-> encs[i].frame_rate_divisor,
         tx |-> encs[i].tx]]

\* The connections of a list whose id is not encoder_id, as they are.
OtherIds(encs, encoder_id) == SelectSeq(encs, LAMBDA enc : enc.id # encoder_id)

\* C32: disconnect_encoder(id) removes the connections of that id and leaves
\* the others, their counters and all queues as they are; from the moment
\* the distribution thread takes the write lock until it runs its retain
\* the list of connections does not change; and no frame is put into the
\* queue of a connection that is not in the list.
C32_DisconnectUnderLock ==
    [][ /\ \A id \in EncoderIds :
               LockedDisconnect(id) =>
                   /\ encoders' = OtherIds(encoders, id)
                   /\ channels' = channels
        /\ (WorkerHoldsWrite /\ worker_pc' # "check") =>
               Connections(encoders') = Connections(encoders)
        /\ \A c \in DOMAIN channels :
               ~Connected(encoders, c) => Len(channels'[c].buf) <= Len(channels[c].buf)
      ]_vars

\* C32 witness: of two connections that take every frame and were made before
\* the same frame, one was removed by disconnect_encoder (not by the thread)
\* and the other, still connected, has been given more frames since.
C32_Witness ==
    \E c \in DOMAIN channels, i \in 1..Len(encoders) :
        /\ ~Connected(encoders, c)
        /\ ~channels[c].reaped
        /\ channels[c].rx_alive
        /\ channels[c].divisor <= 1
        /\ encoders[i].frame_rate_divisor <= 1
        /\ channels[encoders[i].tx].joined = channels[c].joined
        /\ channels[encoders[i].tx].rx_alive
        /\ Len(Delivered(c)) >= 1
        /\ Len(Delivered(encoders[i].tx)) > Len(Delivered(c))

\* ---------------------------------------------------------------------------
\* Queue bounds of the video output and of an audio mix
\* ---------------------------------------------------------------------------

\* A VideoOutput in use, or an AudioMix in use.
VideoActive == budget # None
AudioActive == audio_budget # None

\* An AudioMix as in InitProcess, with one encoder.
InitProcessOne ==
    /\ VideoIdle /\ PoolIdle /\ SceneIdle /\ KernelIdle
    /\ mix = AudioMixNew(1, 1)
    /\ mixed = None
    /\ audio_budget = [mixes |-> 1, sources |-> 1, connects |-> 1,
                       processes |-> MaxProcessCalls, drops |-> 1]
    /\ audio_channels = <<>>
    /\ mix_pc = "idle"
    /\ MixerIdle

InitQueues == Init \/ InitProcessOne

NextQueues ==
    \/ VideoActive /\ Next
    \/ AudioActive /\ NextProcess

SpecQueues == InitQueues /\ [][NextQueues]_vars

\* C33: the frame queue never holds more than MAX_CACHE_SIZE frames, no video
\* or audio encoder queue more than 4 items, and the producers never wait:
\* unlock_frame can complete whenever a frame is locked, the fan-out whenever
\* a frame was popped, process() whenever it is called or under way,
\* whatever the queues hold.
C33_QueuesBoundedNoBlocking ==
    /\ Len(frame_queue) <= MAX_CACHE_SIZE
    /\ \A c \in DOMAIN channels : Len(channels[c].buf) <= ENCODER_QUEUE_CAP
    /\ \A c \in DOMAIN audio_channels : Len(audio_channels[c].buf) <= AUDIO_QUEUE_CAP
    /\ (VideoActive /\ locked # None /\ thread_handle # "joining") =>
           ENABLED UnlockFrame(locked, Timestamp(submitted + 1))
    /\ (VideoActive /\ worker_pc = "fanout") => ENABLED WorkerFanout
    /\ (AudioActive /\ mix_pc = "idle" /\ audio_budget.processes > 0) => ENABLED ProcessDispatch
    /\ (AudioActive /\ mix_pc = "retain") => ENABLED ProcessRetain

\* C33 witness: the frame queue holds 16 frames, an unlock_frame has just been
\* refused, and the next frame is locked already.
C33_Witness ==
    /\ Len(frame_queue) = MAX_CACHE_SIZE
    /\ skipped_frames >= 1
    /\ locked # None

\* ---------------------------------------------------------------------------
\* The crop calculators (transform.rs calc_cx / calc_cy, types.rs
\* SceneItemCrop::calc_width / calc_height)
\* ---------------------------------------------------------------------------

\* Crops of the runs: 0..MaxCrop pixels on each side, and the crop of
\* test_calc_cx_cy and test_crop_calculations.
MaxCrop == 2
CropLefts == 0..MaxCrop \cup {10}
CropRights == 0..MaxCrop \cup {20}
CropTops == 0..MaxCrop \cup {5}
CropBottoms == 0..MaxCrop \cup {15}

\* Source sizes of the runs: a few pixels, and the 100 of the tests.
CropSizes == {1, 2, 3, 100}

\* An item as update_item_transform hands it to calc_cx and calc_cy: its crop
\* as the user set it, its bounds_crop just reset.
CropInit ==
    /\ \E l \in CropLefts, r \in CropRights, t \in CropTops, b \in CropBottoms :
       \E w \in CropSizes, h \in CropSizes :
           crop_in = [item |-> [crop |-> [left |-> l, right |-> r, top |-> t, bottom |-> b],
                                bounds_crop |-> CropDefault],
                      width |-> w, height |-> h]
    /\ crop_out = None

\* The four calculators called on the item and the source size.
CropCall ==
    /\ crop_in # None
    /\ crop_out = None
    /\ crop_out' = [cx |-> CalcCx(crop_in.item, crop_in.width),
                    cy |-> CalcCy(crop_in.item, crop_in.height),
                    calc_width |-> CalcWidth(crop_in.item.crop, crop_in.width),
                    calc_height |-> CalcHeight(crop_in.item.crop, crop_in.height)]
    /\ UNCHANGED <<videoVars, poolVars, sceneVars, audioVars>>
    /\ UNCHANGED <<clamp_buffers, has_avx, clamp_last, clamped_channels, clamp_budget>>
    /\ UNCHANGED <<convVars, allocVars, crop_in, cloneVars>>

InitCrop ==
    /\ VideoIdle /\ PoolIdle /\ SceneIdle /\ AudioIdle
    /\ ClampIdle /\ ConvIdle /\ AllocIdle /\ CloneIdle
    /\ CropInit

NextCrop == CropCall

SpecCrop == InitCrop /\ [][NextCrop]_vars

\* The sums of the claim: both crops of the item, horizontally and vertically.
Dx(item) == item.crop.left + item.crop.right + item.bounds_crop.left + item.bounds_crop.right
Dy(item) == item.crop.top + item.crop.bottom + item.bounds_crop.top + item.bounds_crop.bottom

\* The effective size of the claim for a crop sum d on a source extent s.
Effective(d, s) == IF d > s THEN 2 ELSE s - d

\* What calc_cx and calc_cy return is the effective size.
TransformCropAsStated ==
    crop_out # None =>
        /\ crop_out.cx = Effective(Dx(crop_in.item), crop_in.width)
        /\ crop_out.cy = Effective(Dy(crop_in.item), crop_in.height)

\* C34 (as claimed): calc_cx and calc_cy return sW - dx when dx <= sW and 2 when
\* dx > sW (height alike), (70, 80) for the crop 10, 20, 5, 15 on 100x100, and
\* SceneItemCrop::calc_width / calc_height return the same values for the
\* user crop alone.
C34_EffectiveCropSize ==
    crop_out # None =>
        /\ TransformCropAsStated
        /\ crop_out.calc_width = Effective(crop_in.item.crop.left + crop_in.item.crop.right,
                                           crop_in.width)
        /\ crop_out.calc_height = Effective(crop_in.item.crop.top + crop_in.item.crop.bottom,
                                            crop_in.height)

\* C34, a state the code reaches: the crop takes the whole width; calc_cx
\* returns 0 and calc_width returns 2.
C34_CalcWidthDisagrees ==
    /\ crop_out # None
    /\ Dx(crop_in.item) = crop_in.width
    /\ crop_out.cx = 0
    /\ crop_out.calc_width = 2

\* ---------------------------------------------------------------------------
\* A VideoOutput after shutdown() (video_output.rs)
\* ---------------------------------------------------------------------------

\* lock_frame calls of the runs with a shutdown: enough to fill the queue
\* and have one more frame refused.
MaxStoppedLocks == 18

\* A VideoOutput whose owner submits frames, lets one encoder connect and
\* calls shutdown() once, before, between or after the frames, and goes on
\* using the output afterwards.
InitStopped ==
    /\ PoolIdle /\ SceneIdle /\ AudioIdle /\ KernelIdle
    /\ frames = NewPool(MAX_CACHE_SIZE + POOL_EXTRA_FRAMES)
    /\ locked = None
    /\ frame_queue = <<>>
    /\ encoders = <<>>
    /\ channels = <<>>
    /\ worker_pc = "check"
    /\ cached = None
    /\ total_frames = 0
    /\ skipped_frames = 0
    /\ running = TRUE
    /\ thread_handle = "some"
    /\ ret = None
    /\ pushed = <<>>
    /\ submitted = 0
    /\ budget = [locks |-> MaxStoppedLocks, connects |-> 1, churn |-> FALSE, shutdowns |-> 1]

\* The encoder takes every frame and stays until the thread removes it.
NextStopped ==
    \/ LockFrame
    \/ UnlockFrame(locked, Timestamp(submitted + 1))
    \/ WorkerCheck
    \/ WorkerPop
    \/ WorkerFanout
    \/ \E id \in EncoderIds : ConnectEncoder(id, 1)
    \/ \E c \in DOMAIN channels : EncoderRecv(c)
    \/ Shutdown
    \/ ShutdownJoined

SpecStopped == InitStopped /\ [][NextStopped]_vars

\* shutdown() has returned: the flag is cleared and the thread was joined.
Stopped == ~running /\ thread_handle = "none"

\* C35: after shutdown() the distribution thread has exited, and from then on
\* no frame is put into an encoder queue, the queued frames stay queued with
\* their pool slots in use, total_frames does not change, and unlock_frame
\* appends while the queue holds fewer than 16 frames and is refused and
\* counted as skipped once it holds 16.
C35_AfterShutdown ==
    [][Stopped =>
        /\ worker_pc = "exited" /\ worker_pc' = "exited"
        /\ total_frames' = total_frames
        /\ \A c \in DOMAIN channels :
               Len(channels'[c].received) + Len(channels'[c].buf)
                   = Len(channels[c].received) + Len(channels[c].buf)
        /\ \A k \in 1..Len(frame_queue) :
               /\ k <= Len(frame_queue')
               /\ frame_queue'[k] = frame_queue[k]
               /\ \A i \in SlotsOf(frames, frame_queue[k].frame) :
                      frames[i].in_use /\ frames'[i].in_use
        /\ UnlockStep =>
               IF Len(frame_queue) < MAX_CACHE_SIZE
               THEN /\ ret'.val = TRUE
                    /\ Len(frame_queue') = Len(frame_queue) + 1
                    /\ skipped_frames' = skipped_frames
               ELSE /\ ret'.val = FALSE
                    /\ frame_queue' = frame_queue
                    /\ skipped_frames' = skipped_frames + 1
      ]_vars

\* C35 witness: shutdown() has returned with an encoder still connected that
\* was sent a frame before; 16 frames submitted since then sit in the queue
\* and one more has been refused.
C35_Witness ==
    /\ Stopped
    /\ encoders # <<>>
    /\ total_frames = 1
    /\ \E c \in DOMAIN channels : channels[c].rx_alive /\ Len(Delivered(c)) = 1
    /\ Len(frame_queue) = MAX_CACHE_SIZE
    /\ skipped_frames = 1
    /\ ret = [op |-> "unlock_frame", val |-> FALSE]

\* The audio connection that sends on channel c is in the mix's list.
AudioConnected(c) == \E i \in 1..Len(mix.encoders) : mix.encoders[i].tx = c

\* A step that is the send loop of AudioMix::process.
ProcessStep == mix_pc = "idle" /\ mix_pc' = "retain"

PopStep == worker_pc = "pop" /\ worker_pc' = "fanout"

\* C37: total_frames and skipped_frames never decrease; an unlock_frame call
\* either appends its frame to the queue or adds one to skipped_frames, never
\* both and never neither, and leaves total_frames alone; a popped frame is
\* held by the thread until its fan-out, which adds exactly one to
\* total_frames, with or without encoders; and whenever the thread holds no
\* popped frame, the unlock_frame calls completed are total_frames +
\* skipped_frames + the frames queued (one more while it holds a frame).
C37_FrameAccounting ==
    /\ [](submitted = total_frames + skipped_frames + Len(frame_queue)
                      + (IF worker_pc = "fanout" THEN 1 ELSE 0))
    /\ []((worker_pc = "fanout") <=> (cached # None))
    /\ [][ /\ total_frames' >= total_frames
           /\ skipped_frames' >= skipped_frames
           /\ UnlockStep =>
                  /\ total_frames' = total_frames
                  /\ \/ /\ Len(frame_queue') = Len(frame_queue) + 1
                        /\ skipped_frames' = skipped_frames
                     \/ /\ frame_queue' = frame_queue
                        /\ skipped_frames' = skipped_frames + 1
           /\ PopStep => (total_frames' = total_frames /\ cached' = Head(frame_queue))
           /\ DistributeStep => total_frames' = total_frames + 1
           /\ (total_frames' # total_frames) => DistributeStep
         ]_vars

\* C37 witness: with no encoder connected, frames have been popped and
\* counted, one was refused, others are queued, and the thread holds none.
C37_Witness ==
    /\ encoders = <<>>
    /\ channels = <<>>
    /\ worker_pc # "fanout"
    /\ total_frames >= 2
    /\ skipped_frames >= 1
    /\ Len(frame_queue) >= 1
    /\ submitted = total_frames + skipped_frames + Len(frame_queue)

\* ---------------------------------------------------------------------------
\* A Scene and a clone of it (scene.rs, impl Clone for Scene)
\* ---------------------------------------------------------------------------

\* add_item calls made through the Scene, and as many through its clone.
MaxCloneAdds == 2

\* Scene::clone: the clone shares the items (Arc::clone) and gets an id counter
\* of its own that starts at the value the original's counter has now.
SceneClone ==
    /\ clone_id_counter = 0
    /\ clone_id_counter' = id_counter
    /\ UNCHANGED <<videoVars, poolVars, sceneVars, audioVars>>
    /\ UNCHANGED <<clamp_buffers, has_avx, clamp_last, clamped_channels, clamp_budget>>
    /\ UNCHANGED <<convVars, allocVars, cropVars>>

\* add_item called on the clone, before the write lock: the id comes from the
\* clone's counter. The push is AddItemPush, on the shared items.
CloneAddItemFetch(t, item) ==
    /\ clone_id_counter # 0
    /\ adders[t] = None
    /\ t <= scene_budget.threads
    /\ clone_id_counter <= scene_budget.adds
    /\ clone_id_counter' = clone_id_counter + 1
    /\ adders' = [adders EXCEPT ![t] = [item EXCEPT !.id = clone_id_counter,
                                                   !.transform_dirty = TRUE]]
    /\ UNCHANGED <<videoVars, poolVars, audioVars, items, id_counter, returned, scene_ret,
                   render_count, renderers, scene_budget>>
    /\ UNCHANGED <<clamp_buffers, has_avx, clamp_last, clamped_channels, clamp_budget>>
    /\ UNCHANGED <<convVars, allocVars, cropVars>>

\* A Scene whose owner clones it at some point and adds items through both,
\* one call after the other, and removes and reorders items.
CloneIds == 0..MaxCloneAdds

InitClone ==
    /\ VideoIdle /\ PoolIdle /\ SceneInit /\ AudioIdle /\ KernelIdle
    /\ scene_budget = [adds |-> MaxCloneAdds, threads |-> 1, renders |-> 0]

NextClone ==
    \/ \E s \in Sources : AddItemFetch(1, SceneItemNew(0, s))
    \/ \E s \in Sources : CloneAddItemFetch(1, SceneItemNew(0, s))
    \/ AddItemPush(1)
    \/ SceneClone
    \/ \E id \in CloneIds : RemoveItem(id)
    \/ \E order \in OrderListsOf(CloneIds) : ReorderItems(order)

SpecClone == InitClone /\ [][NextClone]_vars

\* C39 (as claimed): the items of the scene have pairwise distinct ids, also
\* when items are added through a clone of the Scene.
C39_DistinctIdsWithClone ==
    \A i, j \in 1..Len(items) : items[i].id = items[j].id => i = j

\* C39, a state the code reaches: the scene holds two items of one id, one
\* added through the Scene and one through its clone.
C39_DuplicateId ==
    /\ clone_id_counter # 0
    /\ \E i, j \in 1..Len(items) : i # j /\ items[i].id = items[j].id

\* How many times an item (id, contents, dirty flag and all) occurs in a list.
Occurrences(its, it) == Cardinality({i \in 1..Len(its) : its[i] = it})

\* Two lists hold the same items, each as many times.
SameItems(a, b) ==
    /\ Len(a) = Len(b)
    /\ \A i \in 1..Len(a) : Occurrences(a, a[i]) = Occurrences(b, a[i])

\* A step that is a reorder_items call with one of the lists only permutes
\* the items.
ReorderPermutes(lists) ==
    \A order \in lists : ReorderItems(order) => SameItems(items, items')

\* On a Scene that is never cloned reorder_items only permutes.
ReorderPermutesUncloned == [][ReorderPermutes(OrderListsOf(OrderIds))]_vars

\* C38 (as claimed): whatever the order list (unknown ids, repeated ids,
\* any desired indices), reorder_items leaves the scene with the same items
\* as before: as many, with the same ids, contents and dirty flags.
C38_ReorderOnlyPermutes == [][ReorderPermutes(OrderListsOf(CloneIds))]_vars

\* C38, a state the code reaches: the scene held two items of one id (C39),
\* and after a reorder_items call it holds one item only.
C38_ItemLost ==
    /\ scene_ret = [op |-> "reorder_items"]
    /\ Len(returned) = 2
    /\ returned[1] = returned[2]
    /\ Len(items) = 1

\* ---------------------------------------------------------------------------
\* A Scene that is only added to (scene.rs, add_item)
\* ---------------------------------------------------------------------------

\* add_item calls made on a Scene that several threads only add to.
MaxAppends == 3

\* A Scene whose items are never moved, reordered or removed: threads call
\* add_item, and their calls may overlap.
InitAppend ==
    /\ VideoIdle /\ PoolIdle /\ SceneInit /\ AudioIdle /\ KernelIdle
    /\ scene_budget = [adds |-> MaxAppends, threads |-> MaxAdders, renders |-> 0]

NextAppend ==
    \/ \E t \in Adders, s \in Sources : AddItemFetch(t, SceneItemNew(0, s))
    \/ \E t \in Adders : AddItemPush(t)

SpecAppend == InitAppend /\ [][NextAppend]_vars

\* C40 (as claimed): on a Scene that is only added to, the items are in the
\* order of their ids: of two items the one with the smaller id comes first,
\* also when the add_item calls that added them overlapped.
C40_AppendInIdOrder ==
    \A i, j \in 1..Len(items) : items[i].id < items[j].id => i < j

\* C40, a state the code reaches: two overlapping add_item calls returned 2
\* and then 1, and the item with id 2 comes before the item with id 1.
C40_OutOfIdOrder ==
    /\ returned = <<2, 1>>
    /\ IdSeq(items) = <<2, 1>>

====
